---------------------------- MODULE Spec2Model ----------------------------
(***************************************************************************)
(* Model of the mblog backend (backend-rs): the memo / tag / comment /     *)
(* like consistency rules of routes/memo.rs and routes/comment.rs and the  *)
(* memo listing of routes/memo.rs::list.                                   *)
(*                                                                         *)
(* Text is modelled character by character: a string is a sequence of      *)
(* one-character strings, so that parsing, stripping, formatting and       *)
(* splitting of hashtags are computed the way the code computes them.      *)
(***************************************************************************)
EXTENDS Integers, Sequences, FiniteSets, TLC

VARIABLES
    memos,        \* t_memo: id -> row
    nextMemoId,   \* next primary key of t_memo
    tags,         \* t_tag: set of rows [id, user_id, name, memo_count]
    nextTagId,    \* next primary key of t_tag
    resources,    \* t_resource: public_id -> memo_id (0 = orphaned upload)
    comments,     \* t_comment: set of rows
    nextCommentId,
    relations,    \* t_user_memo_relation: set of rows
    nextRelId,
    sys_config,   \* t_sys_config: the boolean settings the handlers read
    mentionSeen,  \* users whose last_clicked_mentioned has been refreshed
    reads,        \* read requests (list, comment query) served so far
    resp,         \* the response of the last request served
    lastInput,    \* the content of the last request (parsing specification)
    dev_tokens,   \* t_dev_token: set of rows [id, name, token, user_id]
    nextTokenId,  \* next primary key of t_dev_token
    now,          \* Utc::now(), in seconds
    revoked,      \* API tokens replaced or deleted by a completed reset / disable
    txns,         \* open transactions of concurrent relation ADD requests
    backend,      \* the database the deployment connects to
    hooks,        \* spawned webhook tasks that have not run yet
    sent          \* webhook notifications posted

\* the variables of the token, concurrency and webhook parts
ext == <<dev_tokens, nextTokenId, now, revoked, txns, backend>>
tasks == <<hooks, sent>>

vars == <<memos, nextMemoId, tags, nextTagId, resources, comments,
          nextCommentId, relations, nextRelId, sys_config, mentionSeen, reads,
          resp, lastInput, ext, tasks>>

store == <<memos, nextMemoId, tags, nextTagId, resources, comments,
           nextCommentId, relations, nextRelId, sys_config, mentionSeen,
           reads, ext, tasks>>

-----------------------------------------------------------------------------
(* Bounds of the model.                                                    *)

MaxMemoId == 2       \* memo rows ever inserted in one behaviour
MaxTagCount == 3     \* cap on Tag.memo_count
MaxLen == 5          \* longest content drawn in the parsing specification
MaxRelId == 2        \* relation rows ever inserted in one behaviour
MaxComments == 2     \* comment rows ever inserted in one behaviour
MaxReads == 1        \* read requests served in one behaviour

\* Option<T>: <<>> is None, <<x>> is Some(x)
None == <<>>
Some(x) == <<x>>

-----------------------------------------------------------------------------
(* Strings.                                                                *)

\* char::is_whitespace, over the characters the model draws
is_whitespace(c) == c \in {" ", "\n"}

RECURSIVE SplitAcc(_, _, _, _)
SplitAcc(s, Sep, cur, acc) ==
    IF s = <<>> THEN Append(acc, cur)
    ELSE IF Head(s) \in Sep
         THEN SplitAcc(Tail(s), Sep, <<>>, Append(acc, cur))
         ELSE SplitAcc(Tail(s), Sep, Append(cur, Head(s)), acc)

\* str::split(pattern): the pieces between separators, empty pieces kept
split(s, Sep) == SplitAcc(s, Sep, <<>>, <<>>)

\* str::lines(): split on '\n', a final empty piece is dropped
lines(s) ==
    LET ps == split(s, {"\n"})
    IN IF ps[Len(ps)] = <<>> THEN SubSeq(ps, 1, Len(ps) - 1) ELSE ps

RECURSIVE trim_start(_)
trim_start(s) ==
    IF s # <<>> /\ is_whitespace(Head(s)) THEN trim_start(Tail(s)) ELSE s

RECURSIVE trim_end(_)
trim_end(s) ==
    IF s # <<>> /\ is_whitespace(s[Len(s)])
    THEN trim_end(SubSeq(s, 1, Len(s) - 1)) ELSE s

\* str::trim()
trim(s) == trim_end(trim_start(s))

RECURSIVE join(_, _)
\* [String]::join(sep)
join(ss, sep) ==
    IF ss = <<>> THEN <<>>
    ELSE IF Len(ss) = 1 THEN ss[1]
    ELSE ss[1] \o sep \o join(Tail(ss), sep)

RECURSIVE replace(_, _)
\* str::replace(pat, ""): every non-overlapping occurrence of pat, from the
\* left, is removed
replace(s, pat) ==
    IF Len(s) < Len(pat) THEN s
    ELSE IF SubSeq(s, 1, Len(pat)) = pat
         THEN replace(SubSeq(s, Len(pat) + 1, Len(s)), pat)
         ELSE <<Head(s)>> \o replace(Tail(s), pat)

\* str::contains(pat)
RECURSIVE contains(_, _)
contains(s, pat) ==
    IF Len(s) < Len(pat) THEN FALSE
    ELSE SubSeq(s, 1, Len(pat)) = pat \/ contains(Tail(s), pat)

Range(f) == {f[i] : i \in DOMAIN f}

-----------------------------------------------------------------------------
(* Hashtags: routes/memo.rs                                                *)

check_content_and_resource(content, public_ids) ==
    ~(trim(content) = <<>> /\ public_ids = <<>>)

parse_tags(content) ==
    LET first_line == Head(split(content, {"\n"}))
    IN IF trim(first_line) = <<>> THEN <<>>
       ELSE SelectSeq(split(first_line, {" ", "\n", ","}),
                      LAMBDA s : s # <<>> /\ Head(s) = "#" /\ Len(s) > 1)

RECURSIVE strip_tags(_, _)
\* the loop of replace_first_line over the tags
strip_tags(first, tgs) ==
    IF tgs = <<>> THEN first
    ELSE LET t == Head(tgs)
             a == replace(first, t \o <<",">>)
             b == replace(a, t \o <<" ">>)
             c == replace(b, t)
         IN strip_tags(c, Tail(tgs))

replace_first_line(content, tgs) ==
    IF trim(content) = <<>> THEN <<>>
    ELSE LET ls == lines(content)
         IN IF ls = <<>> THEN <<>>
            ELSE LET first == strip_tags(ls[1], tgs)
                 IN IF trim(first) = <<>>
                    THEN join(Tail(ls), <<"\n">>)
                    ELSE join(<<first>> \o Tail(ls), <<"\n">>)

format_tags(tgs) ==
    IF tgs = <<>> THEN <<>> ELSE join(tgs, <<",">>) \o <<",">>

split_tags(field) ==
    SelectSeq(split(field, {","}), LAMBDA s : s # <<>>)


-----------------------------------------------------------------------------
(* Users and principals.  Registration is not modelled: the user table is  *)
(* fixed, user 1 holding the role ADMIN.                                   *)

Users == {1, 2, 3, 7}

UserRole(u) == IF u = 1 THEN "ADMIN" ELSE "USER"

\* auth.rs AuthUser {user_id, role}: the role is read from the user row
AuthUser(u) == [user_id |-> u, role |-> UserRole(u)]

\* AppError codes
CodeOk == 0
CodeParamError == 1
CodeFail == 2
CodeSystemException == 99

-----------------------------------------------------------------------------
(* Tag rows: routes/memo.rs                                                *)

increment_tag_count(tbl, user_id, name) ==
    { IF r.user_id = user_id /\ r.name = name
      THEN [r EXCEPT !.memo_count = @ + 1] ELSE r : r \in tbl }

\* the decrement without its floor: "... and memo_count >= 1" left out
decrement_tag_count_unguarded(tbl, user_id, name) ==
    { IF r.user_id = user_id /\ r.name = name
      THEN [r EXCEPT !.memo_count = @ - 1] ELSE r : r \in tbl }

decrement_tag_count(tbl, user_id, name) ==
    { IF r.user_id = user_id /\ r.name = name /\ r.memo_count >= 1
      THEN [r EXCEPT !.memo_count = @ - 1] ELSE r : r \in tbl }

RECURSIVE IncrementEach(_, _, _)
\* for t in existing { increment_tag_count(db, user_id, &t.name) }
IncrementEach(tbl, user_id, existing) ==
    IF existing = {} THEN tbl
    ELSE LET t == CHOOSE x \in existing : TRUE
         IN IncrementEach(increment_tag_count(tbl, user_id, t.name),
                          user_id, existing \ {t})

RECURSIVE DecrementEach(_, _, _)
\* for tag_name in tags { decrement_tag_count(db, user_id, &tag_name) }
DecrementEach(tbl, user_id, names) ==
    IF names = <<>> THEN tbl
    ELSE DecrementEach(decrement_tag_count(tbl, user_id, Head(names)),
                       user_id, Tail(names))

HasDuplicate(names) ==
    \E i, j \in DOMAIN names : i < j /\ names[i] = names[j]

\* sync_tags_on_save.  The table definition (changelog-sqlite.sql) is not
\* part of the sources: "unique" says whether t_tag carries a unique index
\* on (user_id, name), in which case inserting the same new name twice fails
\* and the transaction is rolled back.
sync_tags_on_save(tbl, nid, user_id, tgs, unique) ==
    IF tgs = <<>> THEN [ok |-> TRUE, tags |-> tbl, nextTagId |-> nid]
    ELSE
    LET existing == {r \in tbl : r.user_id = user_id /\ r.name \in Range(tgs)}
        new_tags == SelectSeq(tgs, LAMBDA x : \A t \in existing : x # t.name)
        inserted == { [id |-> nid + i - 1, user_id |-> user_id,
                       name |-> new_tags[i], memo_count |-> 1]
                      : i \in DOMAIN new_tags }
    IN IF unique /\ HasDuplicate(new_tags)
       THEN [ok |-> FALSE, tags |-> tbl, nextTagId |-> nid]
       ELSE [ok |-> TRUE,
             tags |-> IncrementEach(tbl \cup inserted, user_id, existing),
             nextTagId |-> nid + Len(new_tags)]

sync_tags_on_update(tbl, nid, user_id, new_tags, old_tags, unique) ==
    LET s == sync_tags_on_save(tbl, nid, user_id, new_tags, unique)
    IN IF ~s.ok THEN s
       ELSE [s EXCEPT !.tags = DecrementEach(s.tags, user_id, old_tags)]

-----------------------------------------------------------------------------
(* Resource rows: routes/memo.rs                                           *)

\* the statement of attach_resources without "memo_id = 0 and"
attach_resource_any(res, memo_id, pid) ==
    IF pid \in DOMAIN res THEN [res EXCEPT ![pid] = memo_id] ELSE res

\* update t_resource set memo_id = ? where memo_id = 0 and public_id = ?
attach_resource(res, memo_id, pid) ==
    IF pid \in DOMAIN res /\ res[pid] = 0
    THEN [res EXCEPT ![pid] = memo_id] ELSE res

RECURSIVE attach_resources(_, _, _)
attach_resources(res, memo_id, public_ids) ==
    IF public_ids = <<>> THEN res
    ELSE attach_resources(attach_resource(res, memo_id, Head(public_ids)),
                          memo_id, Tail(public_ids))

\* clear_memo_resources gone wrong: no row is released
clear_memo_resources_none(res, memo_id) == res

\* update t_resource set memo_id = 0 where memo_id = ?
clear_memo_resources(res, memo_id) ==
    [pid \in DOMAIN res |-> IF res[pid] = memo_id THEN 0 ELSE res[pid]]

-----------------------------------------------------------------------------
(* Memo handlers: routes/memo.rs                                           *)

\* v.trim().is_empty(), for the setting strings the model draws
is_blank(v) == v \in {"", " "}

\* payload.visibility.filter(|v| !v.trim().is_empty()).or_else(default)
Visibility(v, default) ==
    IF v = None \/ is_blank(v[1]) THEN default ELSE v[1]

\* the default of the column t_memo.priority.  The table definition
\* (changelog-sqlite.sql) is not part of the sources; the value is the one
\* the specification states for it.
DefaultPriority == 0

\* the row save() inserts; the columns it leaves unset take the column
\* defaults (status NORMAL, priority and the counters 0)
NewMemo(id, auth, p) ==
    LET tgs == parse_tags(p.content)
    IN [id |-> id,
        user_id |-> auth.user_id,
        tags |-> format_tags(tgs),
        visibility |-> Visibility(p.visibility, "PUBLIC"),
        enable_comment |-> IF p.enable_comment = Some(TRUE) THEN 1 ELSE 0,
        content |-> trim(replace_first_line(p.content, tgs)),
        created |-> id,
        updated |-> now,
        status |-> "NORMAL",
        priority |-> DefaultPriority,
        comment_count |-> 0,
        like_count |-> 0]

TagCountsBounded(tbl) == \A r \in tbl : r.memo_count <= MaxTagCount

Reply(op, code, user_id, id) ==
    [op |-> op, code |-> code, user_id |-> user_id, id |-> id]

\* actix_web::rt::spawn of notify_webhook: the task is left to the runtime
notify_webhook_async(pending, memo_id) == pending \cup {memo_id}

\* POST /memo/save
Save(auth, p, unique) ==
    /\ nextMemoId <= MaxMemoId
    /\ IF ~check_content_and_resource(p.content, p.public_ids)
       THEN /\ resp' = Reply("save", CodeFail, auth.user_id, 0)
            /\ UNCHANGED store
       ELSE LET tgs == parse_tags(p.content)
                inserted == NewMemo(nextMemoId, auth, p)
                sync == sync_tags_on_save(tags, nextTagId, auth.user_id,
                                          tgs, unique)
            IN IF ~sync.ok
               THEN /\ resp' = Reply("save", CodeSystemException,
                                     auth.user_id, 0)
                    /\ UNCHANGED store
               ELSE /\ TagCountsBounded(sync.tags)
                    /\ memos' = [i \in DOMAIN memos \cup {nextMemoId} |->
                                   IF i = nextMemoId THEN inserted
                                   ELSE memos[i]]
                    /\ nextMemoId' = nextMemoId + 1
                    /\ tags' = sync.tags
                    /\ nextTagId' = sync.nextTagId
                    /\ resources' = IF p.public_ids # <<>>
                                    THEN attach_resources(resources,
                                             inserted.id, p.public_ids)
                                    ELSE resources
                    /\ hooks' = notify_webhook_async(hooks, inserted.id)
                    /\ resp' = Reply("save", CodeOk, auth.user_id,
                                     inserted.id)
                    /\ UNCHANGED <<comments, nextCommentId, relations,
                                   nextRelId, sys_config, mentionSeen,
                                   reads, ext, sent>>

\* POST /memo/update
Update(auth, idOpt, p, unique) ==
    IF idOpt = None
    THEN /\ resp' = Reply("update", CodeParamError, auth.user_id, 0)
         /\ UNCHANGED store
    ELSE LET id == idOpt[1] IN
    IF ~check_content_and_resource(p.content, p.public_ids)
            \/ id \notin DOMAIN memos
    THEN /\ resp' = Reply("update", CodeFail, auth.user_id, id)
         /\ UNCHANGED store
    ELSE LET exist == memos[id]
             tgs == parse_tags(p.content)
             old_tags == split_tags(exist.tags)
             sync == sync_tags_on_update(tags, nextTagId, auth.user_id,
                                         tgs, old_tags, unique)
         IN IF ~sync.ok
            THEN /\ resp' = Reply("update", CodeSystemException,
                                  auth.user_id, id)
                 /\ UNCHANGED store
            ELSE /\ TagCountsBounded(sync.tags)
                 /\ memos' = [memos EXCEPT ![id] =
                       [@ EXCEPT
                          !.tags = format_tags(tgs),
                          !.updated = now,
                          !.content = trim(replace_first_line(p.content, tgs)),
                          !.enable_comment =
                              IF p.enable_comment = None
                              THEN exist.enable_comment
                              ELSE IF p.enable_comment[1] THEN 1 ELSE 0,
                          !.visibility =
                              Visibility(p.visibility, exist.visibility)]]
                 /\ tags' = sync.tags
                 /\ nextTagId' = sync.nextTagId
                 /\ resources' =
                       LET cleared == clear_memo_resources(resources, id)
                       IN IF p.public_ids # <<>>
                          THEN attach_resources(cleared, id, p.public_ids)
                          ELSE cleared
                 /\ resp' = Reply("update", CodeOk, auth.user_id, id)
                 /\ UNCHANGED <<nextMemoId, comments, nextCommentId,
                                relations, nextRelId, sys_config, mentionSeen,
                                reads, ext, tasks>>

\* Entity::find_by_id(id).one(db) gone wrong: a missing id yields the row
\* with the lowest id instead of no row
find_by_id_any(rows, id) ==
    IF id \in DOMAIN rows THEN Some(rows[id])
    ELSE IF DOMAIN rows = {} THEN None
    ELSE Some(rows[CHOOSE i \in DOMAIN rows : \A j \in DOMAIN rows : i <= j])

\* memo::Entity::find_by_id(id).one(db)
find_by_id(rows, id) ==
    IF id \in DOMAIN rows THEN Some(rows[id]) ELSE None

\* POST /memo/remove
Remove(auth, memo_id) ==
    LET found == find_by_id(memos, memo_id) IN
    IF found = None
    THEN /\ resp' = Reply("remove", CodeOk, auth.user_id, memo_id)
         /\ UNCHANGED store
    ELSE IF auth.role # "ADMIN" /\ found[1].user_id # auth.user_id
    THEN /\ resp' = Reply("remove", CodeFail, auth.user_id, memo_id)
         /\ UNCHANGED store
    ELSE /\ tags' = DecrementEach(tags, auth.user_id,
                                  split_tags(found[1].tags))
         /\ resources' = [pid \in {q \in DOMAIN resources :
                                      resources[q] # memo_id}
                          |-> resources[pid]]
         /\ memos' = [i \in DOMAIN memos \ {memo_id} |-> memos[i]]
         /\ comments' = {c \in comments : c.memo_id # memo_id}
         /\ resp' = Reply("remove", CodeOk, auth.user_id, memo_id)
         /\ UNCHANGED <<nextMemoId, nextTagId, nextCommentId, relations,
                        nextRelId, sys_config, mentionSeen,
                        reads, ext, tasks>>

\* the highest priority of the table: select max(x.priority) from t_memo
max_priority(rows) ==
    CHOOSE p \in {rows[i].priority : i \in DOMAIN rows} :
        \A i \in DOMAIN rows : rows[i].priority <= p

\* set_priority gone wrong: the new priority is the highest one, not the
\* one after it
pinned_priority_same(rows) == max_priority(rows)

\* ((select max(x.priority) from (select * from t_memo) as x)+1)
pinned_priority(rows) == max_priority(rows) + 1

\* POST /memo/setPriority
set_priority(auth, id, set) ==
    LET found == find_by_id(memos, id) IN
    IF found = None
    THEN /\ resp' = Reply("set_priority", CodeOk, auth.user_id, id)
         /\ UNCHANGED store
    ELSE IF auth.role # "ADMIN" /\ found[1].user_id # auth.user_id
    THEN /\ resp' = Reply("set_priority", CodeFail, auth.user_id, id)
         /\ UNCHANGED store
    ELSE /\ memos' = [memos EXCEPT ![id].priority =
                         IF set THEN pinned_priority(memos) ELSE 0]
         /\ resp' = Reply("set_priority", CodeOk, auth.user_id, id)
         /\ UNCHANGED <<nextMemoId, tags, nextTagId, resources, comments,
                        nextCommentId, relations, nextRelId, sys_config,
                        mentionSeen, reads, ext, tasks>>

-----------------------------------------------------------------------------
(* Like / unlike: routes/memo.rs::relation                                 *)

\* get_boolean gone wrong: every switch reads as on
get_boolean_on(key) == TRUE

\* sys_config::get_boolean
get_boolean(key) == sys_config[key]

\* select count(1) from t_user_memo_relation where memo_id, user_id, fav_type
relation_count(rels, memo_id, user_id, fav_type) ==
    Cardinality({r \in rels : /\ r.memo_id = memo_id
                              /\ r.user_id = user_id
                              /\ r.fav_type = fav_type})

\* the transaction of operate_type "ADD" without the duplicate check: the
\* duplicate row is inserted and the memo counted again
relation_add_unchecked(ms, rels, nid, memo_id, user_id, fav_type) ==
    [ok |-> TRUE,
     relations |-> rels \cup {[id |-> nid, memo_id |-> memo_id,
                               user_id |-> user_id, fav_type |-> fav_type]},
     nextRelId |-> nid + 1,
     memos |-> [i \in DOMAIN ms |->
                  IF i = memo_id
                  THEN [ms[i] EXCEPT !.like_count = @ + 1] ELSE ms[i]]]

\* the transaction of operate_type "ADD"
relation_add(ms, rels, nid, memo_id, user_id, fav_type) ==
    IF relation_count(rels, memo_id, user_id, fav_type) > 0
    THEN [ok |-> FALSE, relations |-> rels, nextRelId |-> nid, memos |-> ms]
    ELSE [ok |-> TRUE,
          relations |-> rels \cup {[id |-> nid, memo_id |-> memo_id,
                                    user_id |-> user_id,
                                    fav_type |-> fav_type]},
          nextRelId |-> nid + 1,
          memos |-> [i \in DOMAIN ms |->
                       IF i = memo_id
                       THEN [ms[i] EXCEPT !.like_count = @ + 1] ELSE ms[i]]]

\* the transaction of operate_type "REMOVE" with the decrement applied
\* whether or not a row was deleted
relation_remove_always(ms, rels, memo_id, user_id, fav_type) ==
    [relations |-> {r \in rels : ~(/\ r.memo_id = memo_id
                                   /\ r.user_id = user_id
                                   /\ r.fav_type = fav_type)},
     memos |-> [i \in DOMAIN ms |->
                  IF i = memo_id /\ ms[i].like_count >= 1
                  THEN [ms[i] EXCEPT !.like_count = @ - 1] ELSE ms[i]]]

\* the transaction of operate_type "REMOVE"
relation_remove(ms, rels, memo_id, user_id, fav_type) ==
    LET deleted == {r \in rels : /\ r.memo_id = memo_id
                                 /\ r.user_id = user_id
                                 /\ r.fav_type = fav_type}
    IN [relations |-> rels \ deleted,
        memos |-> IF Cardinality(deleted) > 0
                  THEN [i \in DOMAIN ms |->
                          IF i = memo_id /\ ms[i].like_count >= 1
                          THEN [ms[i] EXCEPT !.like_count = @ - 1]
                          ELSE ms[i]]
                  ELSE ms]

\* the response of a relation request, with what the store held for the
\* triple before it: the memo's like_count (0 if there is no such memo) and
\* the number of relation rows; "repeat" says that the request before was a
\* successful ADD of the same triple
RelationReply(code, auth, memo_id, fav_type, operate_type) ==
    [op |-> "relation", code |-> code, user_id |-> auth.user_id,
     id |-> memo_id, fav_type |-> fav_type, operate_type |-> operate_type,
     like_before |-> IF memo_id \in DOMAIN memos
                     THEN memos[memo_id].like_count ELSE 0,
     rows_before |-> relation_count(relations, memo_id, auth.user_id,
                                    fav_type),
     repeat |-> /\ resp.op = "relation"
                /\ resp.code = CodeOk
                /\ resp.operate_type = "ADD"
                /\ resp.user_id = auth.user_id
                /\ resp.id = memo_id
                /\ resp.fav_type = fav_type]

\* POST /memo/relation
Relation(auth, memo_id, fav_type, operate_type) ==
    IF ~get_boolean("OPEN_LIKE")
    THEN /\ resp' = RelationReply(CodeFail, auth, memo_id, fav_type,
                                  operate_type)
         /\ UNCHANGED store
    ELSE IF operate_type = "ADD"
    THEN LET r == relation_add(memos, relations, nextRelId, memo_id,
                               auth.user_id, fav_type)
         IN /\ memos' = r.memos
            /\ relations' = r.relations
            /\ nextRelId' = r.nextRelId
            /\ resp' = RelationReply(IF r.ok THEN CodeOk ELSE CodeFail,
                                     auth, memo_id, fav_type, operate_type)
            /\ UNCHANGED <<nextMemoId, tags, nextTagId, resources, comments,
                           nextCommentId, sys_config, mentionSeen,
                           reads, ext, tasks>>
    ELSE IF operate_type = "REMOVE"
    THEN LET r == relation_remove(memos, relations, memo_id, auth.user_id,
                                  fav_type)
         IN /\ memos' = r.memos
            /\ relations' = r.relations
            /\ resp' = RelationReply(CodeOk, auth, memo_id, fav_type,
                                     operate_type)
            /\ UNCHANGED <<nextMemoId, tags, nextTagId, resources, comments,
                           nextCommentId, nextRelId, sys_config, mentionSeen,
                           reads, ext, tasks>>
    ELSE /\ resp' = RelationReply(CodeOk, auth, memo_id, fav_type,
                                  operate_type)
         /\ UNCHANGED store

-----------------------------------------------------------------------------
(* The store after construction: every table empty.                        *)

AllOff == [k \in {"OPEN_LIKE", "OPEN_COMMENT", "ANONYMOUS_COMMENT",
                  "COMMENT_APPROVED"} |-> FALSE]

\* the database after init_sqlite_schema (or the MySQL schema), with the
\* settings cfg
EmptyDb(cfg, db) ==
    /\ dev_tokens = {}
    /\ nextTokenId = 1
    /\ now = 0
    /\ revoked = {}
    /\ txns = {}
    /\ backend = db
    /\ hooks = {}
    /\ sent = {}
    /\ memos = <<>>
    /\ nextMemoId = 1
    /\ tags = {}
    /\ nextTagId = 1
    /\ resources = <<>>
    /\ comments = {}
    /\ nextCommentId = 1
    /\ relations = {}
    /\ nextRelId = 1
    /\ sys_config = cfg
    /\ mentionSeen = {}
    /\ reads = 0
    /\ resp = Reply("none", CodeOk, 0, 0)
    /\ lastInput = <<>>

EmptyStore(cfg) == EmptyDb(cfg, "mysql")

-----------------------------------------------------------------------------
(* Memos of owners only: every update and delete is issued by the memo's   *)
(* owner.                                                                  *)

\* the contents drawn: one tag, the same tag twice, two tags, another tag
\* with text, no tag
TagContents ==
    { <<"#", "a">>,
      <<"#", "a", " ", "#", "a">>,
      <<"#", "a", ",", "#", "b">>,
      <<"#", "b", " ", "x">>,
      <<"x">> }

Payload(content, public_ids, visibility, enable_comment) ==
    [content |-> content, public_ids |-> public_ids,
     visibility |-> visibility, enable_comment |-> enable_comment]

OwnerCallers == {2}

\* the tags of the content that have no row yet
NewTagNames(u, content) ==
    SelectSeq(parse_tags(content),
              LAMBDA x : \A r \in tags : ~(r.user_id = u /\ r.name = x))

\* Only requests whose outcome is the same with and without a unique index
\* on t_tag are drawn: none inserts the same new tag name twice.
OwnerSave ==
    \E u \in OwnerCallers, c \in TagContents :
        /\ ~HasDuplicate(NewTagNames(u, c))
        /\ Save(AuthUser(u), Payload(c, <<>>, None, None), TRUE)
        /\ UNCHANGED lastInput

OwnerUpdate ==
    \E id \in DOMAIN memos, c \in TagContents :
        /\ ~HasDuplicate(NewTagNames(memos[id].user_id, c))
        /\ Update(AuthUser(memos[id].user_id), Some(id),
                  Payload(c, <<>>, None, None), TRUE)
        /\ UNCHANGED lastInput

OwnerRemove ==
    \E id \in DOMAIN memos :
        /\ Remove(AuthUser(memos[id].user_id), id)
        /\ UNCHANGED lastInput

InitOwner == EmptyStore(AllOff)

NextOwner == OwnerSave \/ OwnerUpdate \/ OwnerRemove

SpecOwner == InitOwner /\ [][NextOwner]_vars

-----------------------------------------------------------------------------
(* Parsing: one create-memo request on the empty store, its content drawn  *)
(* from every string of at most MaxLen characters.                         *)

Alphabet == {"#", "a", " ", ",", "\n"}

Strings(n) == UNION { [1..k -> Alphabet] : k \in 0..n }

\* "#rust hello world"
RustHelloWorld ==
    <<"#", "r", "u", "s", "t", " ", "h", "e", "l", "l", "o", " ",
      "w", "o", "r", "l", "d">>

\* a first line whose first hashtag is a prefix of the second
PrefixedHashtags == <<"#", "a", " ", "#", "a", "a">>

ParseSave ==
    \E c \in Strings(MaxLen) \cup {RustHelloWorld, PrefixedHashtags},
       unique \in BOOLEAN :
        /\ memos = <<>>
        /\ resp.op = "none"
        /\ Save(AuthUser(7), Payload(c, <<>>, None, None), unique)
        /\ lastInput' = c

InitParse == EmptyStore(AllOff)

NextParse == ParseSave

SpecParse == InitParse /\ [][NextParse]_vars

-----------------------------------------------------------------------------
(* Likes: users 2 and 3 like and unlike the memos user 2 creates; the      *)
(* OPEN_LIKE setting is on or off from the start.                          *)

Settings(open_like, open_comment, anonymous_comment, comment_approved) ==
    [OPEN_LIKE |-> open_like, OPEN_COMMENT |-> open_comment,
     ANONYMOUS_COMMENT |-> anonymous_comment,
     COMMENT_APPROVED |-> comment_approved]

LikeUsers == {2, 3}
FavTypes == {"LIKE", "STAR"}
OperateTypes == {"ADD", "REMOVE", "TOGGLE"}

LikeSave ==
    /\ Save(AuthUser(2), Payload(<<"x">>, <<>>, None, None), TRUE)
    /\ UNCHANGED lastInput

LikeRelation ==
    \E u \in LikeUsers, m \in 1..MaxMemoId, t \in FavTypes,
       o \in OperateTypes :
        /\ nextRelId <= MaxRelId
        /\ Relation(AuthUser(u), m, t, o)
        /\ UNCHANGED lastInput

InitLike ==
    \E open_like \in BOOLEAN :
        EmptyStore(Settings(open_like, FALSE, FALSE, FALSE))

NextLike == LikeSave \/ LikeRelation

SpecLike == InitLike /\ [][NextLike]_vars

-----------------------------------------------------------------------------
(* Tag counts.                                                             *)

\* the tag names a memo row carries in its tag field
TagNames(m) == Range(split_tags(m.tags))

\* the existing memos of user u whose tag field holds the tag
MemosWithTag(u, name) ==
    {i \in DOMAIN memos : memos[i].user_id = u /\ name \in TagNames(memos[i])}

\* C1: after every create, update and delete issued by the owner of the
\* memo, every Tag row's memo_count is the number of its user's existing
\* memos whose tag field holds the tag name.
C1_TagCountInvariant ==
    \A r \in tags :
        r.memo_count = Cardinality(MemosWithTag(r.user_id, r.name))

\* the change of one tag's count an update from Old to New is to make
TagDelta(name, Old, New) ==
    IF name \in Old \ New THEN -1
    ELSE IF name \in New \ Old THEN 1
    ELSE 0

\* C9: a successful update by the owner changes the owner's tag counts by
\* -1 for each tag of the old tag set that is not in the new one, +1 (or a
\* new row with count 1) for each tag of the new set that is not in the old
\* one, and leaves the count of a tag in both where it was.
C9_UpdateTagDelta ==
    [][ (resp'.op = "update" /\ resp'.code = CodeOk) =>
        LET id == resp'.id
            u == memos[id].user_id
            Old == TagNames(memos[id])
            New == TagNames(memos'[id])
        IN /\ \A r \in tags :
                r.user_id = u =>
                  \E r2 \in tags' :
                     /\ r2.id = r.id
                     /\ r2.memo_count = r.memo_count + TagDelta(r.name, Old, New)
           /\ \A r2 \in tags' :
                (\A r \in tags : r.id # r2.id) =>
                   /\ r2.user_id = u
                   /\ r2.name \in New \ Old
                   /\ r2.memo_count = 1
      ]_vars


-----------------------------------------------------------------------------
(* Create memo.                                                            *)

\* the words of a text: the non-empty pieces between whitespace and commas
Words(s) == SelectSeq(split(s, {" ", "\n", ","}), LAMBDA w : w # <<>>)

IsHashtag(w) == w # <<>> /\ Head(w) = "#" /\ Len(w) > 1

\* the words a content is left with once the hashtags of its first line are
\* taken out: the other words of the first line, then the later lines
WordsWithoutHashtags(content) ==
    LET ls == split(content, {"\n"})
    IN SelectSeq(Words(ls[1]), LAMBDA w : ~IsHashtag(w))
       \o Words(join(Tail(ls), <<"\n">>))

RECURSIVE EachFollowedByComma(_)
EachFollowedByComma(names) ==
    IF names = <<>> THEN <<>>
    ELSE Head(names) \o <<",">> \o EachFollowedByComma(Tail(names))

\* C8: a successful create stores the content with the hashtags of its
\* first line removed, the tag field as each parsed tag followed by a comma,
\* and a Tag row with memo_count 1 for each tag that had no row.
C8_CreateStoresStrippedContent ==
    (resp.op = "save" /\ resp.code = CodeOk) =>
        LET m == memos[resp.id]
            hashtags == SelectSeq(Words(Head(split(lastInput, {"\n"}))),
                                  IsHashtag)
        IN /\ Words(m.content) = WordsWithoutHashtags(lastInput)
           /\ m.tags = EachFollowedByComma(hashtags)
           /\ \A i \in DOMAIN hashtags :
                 \E r \in tags : /\ r.user_id = m.user_id
                                 /\ r.name = hashtags[i]
                                 /\ r.memo_count = 1

\* C8, the scenario: "#rust hello world" by user 7
C8_Scenario ==
    (resp.op = "save" /\ resp.code = CodeOk /\ lastInput = RustHelloWorld) =>
        /\ memos[resp.id].content =
              <<"h", "e", "l", "l", "o", " ", "w", "o", "r", "l", "d">>
        /\ memos[resp.id].tags = <<"#", "r", "u", "s", "t", ",">>
        /\ \E r \in tags : /\ r.user_id = 7
                           /\ r.name = <<"#", "r", "u", "s", "t">>
                           /\ r.memo_count = 1


-----------------------------------------------------------------------------
(* Like / unlike.                                                          *)

\* C2: with likes enabled, an ADD that directly follows a successful ADD of
\* the same (memo, user, fav_type) fails with BusinessFail and changes
\* nothing: the memo's like_count is one higher than before the first ADD
\* and exactly one relation row holds the triple.
C2_SecondAddRejected ==
    [][ ( /\ resp'.op = "relation"
          /\ resp'.operate_type = "ADD"
          /\ resp'.repeat
          /\ get_boolean("OPEN_LIKE") )
        => /\ resp'.code = CodeFail
           /\ UNCHANGED store
           /\ relation_count(relations', resp'.id, resp'.user_id,
                             resp'.fav_type) = 1
           /\ resp'.id \in DOMAIN memos' =>
                 memos'[resp'.id].like_count = resp.like_before + 1
      ]_vars

\* C2, its case: a second ADD was served right after a successful first one,
\* on an existing memo
C2_Witness ==
    /\ resp.op = "relation"
    /\ resp.operate_type = "ADD"
    /\ resp.repeat
    /\ resp.code = CodeFail
    /\ resp.id \in DOMAIN memos
    /\ memos[resp.id].like_count >= 1

\* C3: with likes enabled, a REMOVE of a triple that has no relation row
\* succeeds and changes no like_count and no relation row.
C3_RemoveOfNothing ==
    [][ ( /\ resp'.op = "relation"
          /\ resp'.operate_type = "REMOVE"
          /\ resp'.rows_before = 0
          /\ get_boolean("OPEN_LIKE") )
        => /\ resp'.code = CodeOk
           /\ memos' = memos
           /\ relations' = relations
      ]_vars

\* C3, its case: a REMOVE of an absent triple was served for a memo that
\* another user's like keeps at a like_count of at least 1
C3_Witness ==
    /\ resp.op = "relation"
    /\ resp.operate_type = "REMOVE"
    /\ resp.rows_before = 0
    /\ resp.code = CodeOk
    /\ get_boolean("OPEN_LIKE")
    /\ resp.id \in DOMAIN memos
    /\ memos[resp.id].like_count >= 1

-----------------------------------------------------------------------------
(* Comments: routes/comment.rs                                             *)

\* t_user.display_name of the registered users
display_name(u) ==
    CASE u = 1 -> <<"r">>
      [] u = 2 -> <<"b">>
      [] u = 3 -> <<"c">>
      [] OTHER -> <<"g">>

\* i32::to_string
RECURSIVE to_string(_)
to_string(n) ==
    LET digit == <<"0", "1", "2", "3", "4", "5", "6", "7", "8", "9">>
    IN IF n < 10 THEN <<digit[n + 1]>>
       ELSE to_string(n \div 10) \o <<digit[(n % 10) + 1]>>

\* the match of (@.*?)\\s+ that starts at i, if any: the regex of the raw
\* string ends in a backslash followed by one or more letters s
mention_match(s, i) ==
    LET ends == {j \in (i + 1)..(Len(s) - 1) :
                    /\ s[j] = "\\"
                    /\ s[j + 1] = "s"
                    /\ \A k \in (i + 1)..(j - 1) : s[k] # "\n"}
        j == CHOOSE x \in ends : \A y \in ends : x <= y
        after == CHOOSE e \in (j + 1)..Len(s) :
                    /\ \A k \in (j + 1)..e : s[k] = "s"
                    /\ (e = Len(s) \/ s[e + 1] # "s")
    IN IF i > Len(s) \/ s[i] # "@" \/ ends = {} THEN None
       ELSE Some([capture |-> SubSeq(s, i, j - 1), next |-> after + 1])

\* regex.captures_iter(content): the first groups of the successive matches
RECURSIVE captures_iter(_, _)
captures_iter(s, from) ==
    LET starts == {i \in from..Len(s) : mention_match(s, i) # None}
    IN IF starts = {} THEN <<>>
       ELSE LET i == CHOOSE x \in starts : \A y \in starts : x <= y
                m == mention_match(s, i)[1]
            IN <<m.capture>> \o captures_iter(s, m.next)

\* the user ids parse_mentions finds for the captured names, in order
RECURSIVE mentioned_users(_)
mentioned_users(caps) ==
    IF caps = <<>> THEN <<>>
    ELSE LET trimmed == trim(Head(caps))
             username == IF trimmed # <<>> /\ Head(trimmed) = "@"
                         THEN Tail(trimmed) ELSE trimmed
             found == {u \in Users : display_name(u) = username}
         IN IF username = <<>> \/ found = {}
            THEN mentioned_users(Tail(caps))
            ELSE <<CHOOSE u \in found : \A v \in found : u <= v>>
                 \o mentioned_users(Tail(caps))

RECURSIVE ids_join(_)
ids_join(ids) ==
    IF ids = <<>> THEN <<>>
    ELSE <<"#">> \o to_string(Head(ids)) \o <<",">> \o ids_join(Tail(ids))

RECURSIVE names_join(_)
names_join(ids) ==
    IF ids = <<>> THEN <<>>
    ELSE IF Len(ids) = 1 THEN display_name(Head(ids))
    ELSE display_name(Head(ids)) \o <<",">> \o names_join(Tail(ids))

\* parse_mentions: (mentioned names, mentioned user ids)
parse_mentions(content) ==
    LET ids == mentioned_users(captures_iter(content, 1))
    IN [mentioned |-> IF ids = <<>> THEN None ELSE Some(names_join(ids)),
        mentioned_user_id |-> Some(ids_join(ids))]

CommentReply(code, user_id, memo_id, comment_id, needs_approval) ==
    [op |-> "comment_add", code |-> code, user_id |-> user_id,
     id |-> memo_id, comment_id |-> comment_id,
     needs_approval |-> needs_approval]

\* the counter statement gone wrong: it adds two
increment_comment_count_twice(rows, memo_id) ==
    [rows EXCEPT ![memo_id].comment_count = @ + 2]

\* update t_memo set comment_count = comment_count + 1 where id = ?
increment_comment_count(rows, memo_id) ==
    [rows EXCEPT ![memo_id].comment_count = @ + 1]

\* POST /comment/add; auth is None for an anonymous commenter
comment_add(auth, p) ==
    /\ nextCommentId <= MaxComments
    /\ IF p.memo_id \notin DOMAIN memos
       THEN /\ resp' = CommentReply(CodeFail, -1, p.memo_id, 0, FALSE)
            /\ UNCHANGED store
       ELSE IF ~get_boolean("OPEN_COMMENT")
               \/ memos[p.memo_id].enable_comment # 1
       THEN /\ resp' = CommentReply(CodeFail, -1, p.memo_id, 0, FALSE)
            /\ UNCHANGED store
       ELSE IF auth # None /\ auth[1].user_id \notin Users
       THEN /\ resp' = CommentReply(CodeFail, -1, p.memo_id, 0, FALSE)
            /\ UNCHANGED store
       ELSE IF auth = None /\ ~get_boolean("ANONYMOUS_COMMENT")
       THEN /\ resp' = CommentReply(CodeFail, -1, p.memo_id, 0, FALSE)
            /\ UNCHANGED store
       ELSE LET user_id == IF auth = None THEN -1 ELSE auth[1].user_id
                author_name == IF auth = None THEN p.username
                               ELSE display_name(user_id)
                comment_approved == get_boolean("COMMENT_APPROVED")
                mentions == parse_mentions(p.content)
                comment_model ==
                    [id |-> nextCommentId,
                     memo_id |-> p.memo_id,
                     content |-> p.content,
                     user_id |-> user_id,
                     user_name |-> author_name,
                     mentioned |-> mentions.mentioned,
                     mentioned_user_id |-> mentions.mentioned_user_id,
                     created |-> nextCommentId,
                     approved |-> IF auth # None THEN None
                                  ELSE IF comment_approved THEN Some(0)
                                  ELSE Some(1)]
            IN /\ memos' = increment_comment_count(memos, p.memo_id)
               /\ comments' = comments \cup {comment_model}
               /\ nextCommentId' = nextCommentId + 1
               /\ resp' = CommentReply(CodeOk, user_id, p.memo_id,
                                       nextCommentId, comment_approved)
               /\ UNCHANGED <<nextMemoId, tags, nextTagId, resources,
                              relations, nextRelId, sys_config, mentionSeen,
                              reads, ext, tasks>>

\* the permission test of remove gone wrong: the author of the comment
\* passes it too
can_remove_or_author(role, user_id, memo_item, comment_model) ==
    \/ role = "ADMIN"
    \/ memo_item.user_id = user_id
    \/ comment_model.user_id = user_id

\* the negation of the test of remove:
\* user_model.role != Some("ADMIN") && memo_item.user_id != user_model.id
can_remove(role, user_id, memo_item, comment_model) ==
    role = "ADMIN" \/ memo_item.user_id = user_id

\* POST /comment/remove
comment_remove(auth, id) ==
    LET found == {c \in comments : c.id = id}
        comment_model == CHOOSE c \in found : TRUE
        memo_item == find_by_id(memos, comment_model.memo_id)
    IN IF \/ auth.user_id \notin Users
          \/ found = {}
          \/ memo_item = None
          \/ ~can_remove(UserRole(auth.user_id), auth.user_id,
                         memo_item[1], comment_model)
       THEN /\ resp' = Reply("comment_remove", CodeFail, auth.user_id, id)
            /\ UNCHANGED store
       ELSE /\ comments' = comments \ found
            /\ resp' = Reply("comment_remove", CodeOk, auth.user_id, id)
            /\ UNCHANGED <<memos, nextMemoId, tags, nextTagId, resources,
                           nextCommentId, relations, nextRelId, sys_config,
                           mentionSeen, reads, ext, tasks>>

\* single_approve gone wrong: the statement lacks "and user_id < 0"
single_approve_any_user(id) ==
    /\ comments' = {IF c.id = id
                    THEN [c EXCEPT !.approved = Some(1)] ELSE c
                    : c \in comments}
    /\ resp' = Reply("single_approve", CodeOk, 0, id)
    /\ UNCHANGED <<memos, nextMemoId, tags, nextTagId, resources,
                   nextCommentId, relations, nextRelId, sys_config,
                   mentionSeen, reads, ext, tasks>>

\* POST /comment/singleApprove
single_approve(id) ==
    /\ comments' = {IF c.id = id /\ c.user_id < 0
                    THEN [c EXCEPT !.approved = Some(1)] ELSE c
                    : c \in comments}
    /\ resp' = Reply("single_approve", CodeOk, 0, id)
    /\ UNCHANGED <<memos, nextMemoId, tags, nextTagId, resources,
                   nextCommentId, relations, nextRelId, sys_config,
                   mentionSeen, reads, ext, tasks>>

\* POST /comment/memoApprove
memo_approve(id) ==
    /\ comments' = {IF c.memo_id = id /\ c.user_id < 0
                    THEN [c EXCEPT !.approved = Some(1)] ELSE c
                    : c \in comments}
    /\ resp' = Reply("memo_approve", CodeOk, 0, id)
    /\ UNCHANGED <<memos, nextMemoId, tags, nextTagId, resources,
                   nextCommentId, relations, nextRelId, sys_config,
                   mentionSeen, reads, ext, tasks>>

\* order by: the rows of S in the strict total order Before
Ordered(S, Before) ==
    [i \in 1..Cardinality(S) |->
        CHOOSE x \in S : Cardinality({y \in S : Before[y, x]}) = i - 1]

\* limit offset,size
Limit(rows, offset, size) ==
    IF offset >= Len(rows) THEN <<>>
    ELSE SubSeq(rows, offset + 1,
                IF offset + size <= Len(rows) THEN offset + size
                ELSE Len(rows))

max(a, b) == IF a >= b THEN a ELSE b

\* total / size rounded down: the page count without the remainder page
total_page_floor(total, size) == total \div size

\* if total % size == 0 { total / size } else { total / size + 1 }
total_page(total, size) ==
    IF total % size = 0 THEN total \div size ELSE (total \div size) + 1

\* the where clause of the comment query
comment_where(c, memo_id, is_admin) ==
    /\ c.memo_id = memo_id
    /\ \/ is_admin
       \/ c.user_id > 0
       \/ (c.user_id < 0 /\ c.approved = Some(1))

\* POST /comment/query; auth is None for an anonymous viewer
comment_query(auth, p) ==
    LET page == max(p.page, 1)
        size == max(p.size, 1)
        offset == (page - 1) * size
        is_admin == auth # None /\ auth[1].role = "ADMIN"
        matching == {c \in comments : comment_where(c, p.memo_id, is_admin)}
        total == Cardinality(matching)
        ordered == Ordered(matching,
                           [a \in matching, b \in matching |->
                               a.created < b.created])
        rows == Limit(ordered, offset, size)
    IN /\ reads < MaxReads
       /\ reads' = reads + 1
       /\ resp' = [op |-> "comment_query", code |-> CodeOk, auth |-> auth,
                   req |-> p, page |-> page, size |-> size,
                   offset |-> offset, total |-> total,
                   total_page |-> total_page(total, size),
                   list |-> [i \in DOMAIN rows |->
                               [id |-> rows[i].id,
                                memo_id |-> rows[i].memo_id,
                                user_id |-> rows[i].user_id,
                                approved |-> IF rows[i].approved = None
                                             THEN 0
                                             ELSE rows[i].approved[1]]]]
       /\ UNCHANGED <<memos, nextMemoId, tags, nextTagId, resources,
                      comments, nextCommentId, relations, nextRelId,
                      sys_config, mentionSeen, ext, tasks>>

-----------------------------------------------------------------------------
(* Memo listing: routes/memo.rs::list                                      *)

unwrap_or(o, d) == IF o = None THEN d ELSE o[1]

\* input.parse::<i64>() of parse_date: a string of decimal digits is a
\* timestamp; the model draws no RFC 3339 string, so any other string is
\* an error (None)
RECURSIVE parse_date(_)
parse_date(s) ==
    LET digit == <<"0", "1", "2", "3", "4", "5", "6", "7", "8", "9">>
        last == s[Len(s)]
        init == SubSeq(s, 1, Len(s) - 1)
    IN IF s = <<>> \/ \A d \in DOMAIN digit : digit[d] # last THEN None
       ELSE LET v == (CHOOSE d \in DOMAIN digit : digit[d] = last) - 1
            IN IF init = <<>> THEN Some(v)
               ELSE IF parse_date(init) = None THEN None
               ELSE Some(parse_date(init)[1] * 10 + v)

\* the place of t_user_memo_relation / t_comment in a row of a query that
\* does not join the table
NoRow == [id |-> 0]

\* the visibility predicate of an anonymous listing with every visibility
\* let through
anonymous_visible_all(t) == TRUE

\* t.visibility = 'PUBLIC'
anonymous_visible(t) == t.visibility = "PUBLIC"

\* the visibility predicate of an authenticated listing without the owner
\* test on PRIVATE memos
login_visible_any_owner(t, uid) ==
    t.visibility \in {"PUBLIC", "PROTECT", "PRIVATE"}

\* (t.visibility in ('PUBLIC','PROTECT')
\*   or (t.visibility = 'PRIVATE' and t.user_id = ?))
login_visible(t, uid) ==
    \/ t.visibility \in {"PUBLIC", "PROTECT"}
    \/ (t.visibility = "PRIVATE" /\ t.user_id = uid)

\* the where clause of list over one row of t_memo t [, t_user_memo_relation
\* tumr] [, t_comment tc]
list_where(t, tumr, tc, auth, req) ==
    /\ t.status = "NORMAL"
    /\ (req.search # None /\ req.search[1] # <<>>)
          => contains(t.content, req.search[1])
    /\ (/\ req.begin # None
        /\ req.end # None
        /\ parse_date(req.begin[1]) # None
        /\ parse_date(req.end[1]) # None)
          => /\ parse_date(req.begin[1])[1] <= t.created
             /\ t.created <= parse_date(req.end[1])[1]
    /\ IF auth # None
       THEN LET uid == auth[1].user_id
            IN /\ login_visible(t, uid)
               /\ (req.user_id # None /\ req.user_id[1] > 0)
                     => t.user_id = req.user_id[1]
               /\ unwrap_or(req.liked, FALSE)
                     => /\ tumr.memo_id = t.id
                        /\ tumr.user_id = uid
                        /\ tumr.fav_type = "LIKE"
               /\ unwrap_or(req.commented, FALSE)
                     => /\ tc.memo_id = t.id
                        /\ IF unwrap_or(req.mentioned, FALSE)
                           THEN /\ tc.mentioned_user_id # None
                                /\ contains(tc.mentioned_user_id[1],
                                      <<"#">> \o to_string(uid) \o <<",">>)
                           ELSE tc.user_id = uid
       ELSE /\ anonymous_visible(t)
            /\ (req.user_id # None /\ req.user_id[1] > 0)
                  => t.user_id = req.user_id[1]
    /\ (req.tag # None /\ trim(req.tag[1]) # <<>>)
          => contains(t.tags, req.tag[1] \o <<",">>)
    /\ (req.visibility # None /\ ~is_blank(req.visibility[1]))
          => t.visibility = req.visibility[1]

\* the rows of "from t_memo t{join_clause} where {where_clause}"
list_rows(ms, cs, rels, auth, req) ==
    LET R == IF auth # None /\ unwrap_or(req.liked, FALSE)
             THEN rels ELSE {NoRow}
        C == IF auth # None /\ unwrap_or(req.commented, FALSE)
             THEN cs ELSE {NoRow}
    IN {row \in {[t |-> ms[i], tumr |-> r, tc |-> c] :
                    i \in DOMAIN ms, r \in R, c \in C} :
          list_where(row.t, row.tumr, row.tc, auth, req)}

\* order by [t.priority desc,] t.created desc; rows of one memo, which the
\* order by leaves unordered, are put in the order of their join rows
list_order(req, a, b) ==
    LET by_priority == /\ ~unwrap_or(req.liked, FALSE)
                       /\ ~unwrap_or(req.commented, FALSE)
                       /\ ~unwrap_or(req.mentioned, FALSE)
    IN IF by_priority /\ a.t.priority # b.t.priority
       THEN a.t.priority > b.t.priority
       ELSE IF a.t.created # b.t.created THEN a.t.created > b.t.created
       ELSE IF a.tumr.id # b.tumr.id THEN a.tumr.id < b.tumr.id
       ELSE a.tc.id < b.tc.id

\* the MemoDto build_memo_list_from_rows makes of the rows of memo t
MemoDto(t, cs, rels, auth) ==
    [id |-> t.id,
     user_id |-> t.user_id,
     visibility |-> t.visibility,
     status |-> t.status,
     priority |-> t.priority,
     created |-> t.created,
     un_approved_comment_count |->
         Cardinality({c \in cs : /\ c.memo_id = t.id
                                 /\ c.user_id < 0
                                 /\ c.approved = Some(0)}),
     liked |-> IF auth # None
                  /\ \E r \in rels : /\ r.memo_id = t.id
                                     /\ r.user_id = auth[1].user_id
                                     /\ r.fav_type = "LIKE"
               THEN 1 ELSE 0]

\* count query, page query and grouping of list; dtos is the content of
\* the HashMap of build_memo_list_from_rows
list_page(ms, cs, rels, auth, req) ==
    LET page == max(unwrap_or(req.page, 1), 1)
        size == max(unwrap_or(req.size, 20), 1)
        offset == (page - 1) * size
        matching == list_rows(ms, cs, rels, auth, req)
        total == Cardinality(matching)
        ordered == Ordered(matching,
                           [a \in matching, b \in matching |->
                               list_order(req, a, b)])
        rows == Limit(ordered, offset, size)
    IN [page |-> page, size |-> size, offset |-> offset, total |-> total,
        total_page |-> total_page(total, size),
        dtos |-> {MemoDto(rows[i].t, cs, rels, auth) : i \in DOMAIN rows}]

\* map.into_values(): the values of the HashMap in any order
into_values(S) ==
    {f \in [1..Cardinality(S) -> S] :
        \A i, j \in DOMAIN f : i # j => f[i] # f[j]}

\* POST /memo/list; auth is None for an anonymous viewer
list(auth, req) ==
    LET r == list_page(memos, comments, relations, auth, req)
    IN /\ reads < MaxReads
       /\ reads' = reads + 1
       /\ \E items \in into_values(r.dtos) :
             resp' = [op |-> "list", code |-> CodeOk, auth |-> auth,
                      req |-> req, page |-> r.page, size |-> r.size,
                      offset |-> r.offset, total |-> r.total,
                      total_page |-> r.total_page, items |-> items]
       /\ mentionSeen' = IF /\ auth # None
                            /\ unwrap_or(req.commented, FALSE)
                            /\ unwrap_or(req.mentioned, FALSE)
                         THEN mentionSeen \cup {auth[1].user_id}
                         ELSE mentionSeen
       /\ UNCHANGED <<memos, nextMemoId, tags, nextTagId, resources,
                      comments, nextCommentId, relations, nextRelId,
                      sys_config, ext, tasks>>

-----------------------------------------------------------------------------
(* Listing specification: user 2 posts the first memo and user 3 the next  *)
(* ones, in every visibility; user 3 likes the first memo and comments on  *)
(* it once, mentioning themself; an anonymous viewer, the admin and user 3 *)
(* list with every combination of the filters.                             *)

Visibilities == {"PUBLIC", "PRIVATE", "PROTECT"}
ListOwner(memo_id) == IF memo_id = 1 THEN 2 ELSE 3
ListViewers == {None, Some(AuthUser(1)), Some(AuthUser(3))}

SaveCommentRequest(content, memo_id, username) ==
    [content |-> content, memo_id |-> memo_id, username |-> username]

ListMemoRequest(page, size, tag, visibility, user_id, range, search, liked, commented, mentioned) ==
    [page |-> page, size |-> size, tag |-> tag, visibility |-> visibility,
     user_id |-> user_id, begin |-> range[1], end |-> range[2],
     search |-> search, liked |-> liked, commented |-> commented,
     mentioned |-> mentioned]

OptionalFlag == {None, Some(TRUE)}

ListSave ==
    \E v \in Visibilities :
        /\ Save(AuthUser(ListOwner(nextMemoId)),
                Payload(<<"#", "a", " ", "x">>, <<>>, Some(v), Some(TRUE)),
                TRUE)
        /\ UNCHANGED <<lastInput, reads>>

ListRelation ==
    /\ nextRelId <= MaxRelId
    /\ relation_count(relations, 1, 3, "LIKE") = 0
    /\ Relation(AuthUser(3), 1, "LIKE", "ADD")
    /\ UNCHANGED <<lastInput, reads>>

ListComment ==
    /\ 1 \in DOMAIN memos
    /\ comments = {}
    /\ comment_add(Some(AuthUser(3)),
                   SaveCommentRequest(<<"@", "c", "\\", "s">>, 1, <<>>))
    /\ UNCHANGED lastInput

ListList ==
    \E auth \in ListViewers,
       tag \in {None, Some(<<"#", "a">>)},
       visibility \in {None, Some("PRIVATE")},
       user_id \in {None, Some(2)},
       range \in {<<None, None>>, <<Some(<<"1">>), Some(<<"1">>)>>},
       search \in {None, Some(<<"x">>)},
       liked \in OptionalFlag, commented \in OptionalFlag,
       mentioned \in OptionalFlag :
        /\ list(auth, ListMemoRequest(None, None, tag, visibility, user_id,
                                      range, search, liked, commented,
                                      mentioned))
        /\ UNCHANGED lastInput

InitList == EmptyStore(Settings(TRUE, TRUE, FALSE, FALSE))

NextList == ListSave \/ ListRelation \/ ListComment \/ ListList

SpecList == InitList /\ [][NextList]_vars

-----------------------------------------------------------------------------
(* Comment specification: user 2, who is no admin, posts memos open to     *)
(* comments; user 3 and anonymous visitors comment; comments are approved; *)
(* everybody queries the comments and lists the memos page by page.        *)

CommentViewers == {None} \cup {Some(AuthUser(u)) : u \in {1, 2, 3}}
Pages == 0..2

CommentSave ==
    /\ Save(AuthUser(2), Payload(<<"x">>, <<>>, None, Some(TRUE)), TRUE)
    /\ UNCHANGED <<lastInput, reads>>

CommentAdd ==
    \E auth \in {None, Some(AuthUser(3))}, m \in 1..MaxMemoId :
        /\ comment_add(auth, SaveCommentRequest(<<"x">>, m, <<"n">>))
        /\ UNCHANGED lastInput

CommentSingleApprove ==
    \E id \in 1..MaxComments :
        /\ \E c \in comments : c.id = id /\ c.approved = Some(0)
        /\ single_approve(id)
        /\ UNCHANGED lastInput

CommentMemoApprove ==
    \E id \in 1..MaxMemoId :
        /\ \E c \in comments : c.memo_id = id /\ c.approved = Some(0)
        /\ memo_approve(id)
        /\ UNCHANGED lastInput

CommentQuery ==
    \E auth \in CommentViewers, page \in Pages, size \in Pages,
       m \in 1..MaxMemoId :
        /\ comment_query(auth, [page |-> page, size |-> size, memo_id |-> m])
        /\ UNCHANGED lastInput

CommentList ==
    \E auth \in {None, Some(AuthUser(3))},
       page \in {None} \cup {Some(n) : n \in Pages},
       size \in {None} \cup {Some(n) : n \in Pages},
       commented \in OptionalFlag :
        /\ list(auth, ListMemoRequest(page, size, None, None, None,
                                      <<None, None>>, None, None, commented,
                                      None))
        /\ UNCHANGED lastInput

InitComment ==
    \E anonymous_comment \in BOOLEAN, comment_approved \in BOOLEAN :
        EmptyStore(Settings(FALSE, TRUE, anonymous_comment,
                            comment_approved))

NextComment ==
    \/ CommentSave
    \/ CommentAdd
    \/ CommentSingleApprove
    \/ CommentMemoApprove
    \/ CommentQuery
    \/ CommentList

SpecComment == InitComment /\ [][NextComment]_vars

-----------------------------------------------------------------------------
(* Visibility of the listing.                                              *)

\* C4: a listing request without a resolved principal returns only memos
\* whose visibility is PUBLIC and whose status is NORMAL, for every
\* combination of the filters; no PRIVATE or PROTECT memo is in the items.
C4_AnonymousOnlyPublic ==
    (resp.op = "list" /\ resp.auth = None)
        => \A i \in DOMAIN resp.items :
              /\ resp.items[i].visibility = "PUBLIC"
              /\ resp.items[i].status = "NORMAL"

\* an anonymous listing that returns a memo while the store holds a memo
\* that is not PUBLIC
C4_Witness ==
    /\ resp.op = "list"
    /\ resp.auth = None
    /\ Len(resp.items) = 1
    /\ \E i \in DOMAIN memos : memos[i].visibility \in {"PRIVATE", "PROTECT"}

\* C5: a listing request of an authenticated viewer, the admin included,
\* never returns a PRIVATE memo that another user owns, for every
\* combination of the filters.
C5_NoForeignPrivate ==
    (resp.op = "list" /\ resp.auth # None)
        => \A i \in DOMAIN resp.items :
              ~(/\ resp.items[i].visibility = "PRIVATE"
                /\ resp.items[i].user_id # resp.auth[1].user_id)

\* the admin lists while user 2 holds a PRIVATE memo, and is shown the
\* other memo only
C5_Witness ==
    /\ resp.op = "list"
    /\ resp.auth = Some(AuthUser(1))
    /\ \E i \in DOMAIN memos :
          memos[i].visibility = "PRIVATE" /\ memos[i].user_id = 2
    /\ Len(resp.items) = 1
    /\ resp.items[1].user_id = 3

-----------------------------------------------------------------------------
(* Pagination.                                                             *)

\* the number of items of the pages 1..n of a listing, in the store of the
\* current state
RECURSIVE ItemsOnPages(_, _, _)
ItemsOnPages(auth, req, n) ==
    IF n = 0 THEN 0
    ELSE Cardinality(list_page(memos, comments, relations, auth,
                               [req EXCEPT !.page = Some(n)]).dtos)
         + ItemsOnPages(auth, req, n - 1)

\* C6: for a fixed store and a fixed filter the numbers of items of the
\* pages 1..total_page of the listing add up to the reported total, also
\* with the liked and commented filters.
C6_PagesAddUpToTotal ==
    resp.op = "list"
        => ItemsOnPages(resp.auth, resp.req, resp.total_page) = resp.total

\* the least number of pages of the given size that hold total rows
Ceil(total, size) ==
    CHOOSE n \in 0..total :
        n * size >= total /\ (n = 0 \/ (n - 1) * size < total)

\* C7: in the memo listing and in the comment query page and size are
\* clamped to at least 1, the offset is (page-1)*size, and total_page is
\* ceil(total/size), 0 when total is 0.
C7_Pagination ==
    resp.op \in {"list", "comment_query"}
        => LET page == IF resp.op = "list" THEN unwrap_or(resp.req.page, 1)
                       ELSE resp.req.page
               size == IF resp.op = "list" THEN unwrap_or(resp.req.size, 20)
                       ELSE resp.req.size
               left == IF resp.total > resp.offset
                       THEN resp.total - resp.offset ELSE 0
           IN /\ resp.page = IF page < 1 THEN 1 ELSE page
              /\ resp.size = IF size < 1 THEN 1 ELSE size
              /\ resp.offset = (resp.page - 1) * resp.size
              /\ resp.total >= 0
              /\ resp.total_page = Ceil(resp.total, resp.size)
              /\ resp.total = 0 => resp.total_page = 0
              /\ resp.op = "comment_query"
                    => Len(resp.list) = IF left < resp.size THEN left
                                        ELSE resp.size

\* a comment query with page 0 and size 0 over two visible comments: both
\* are clamped to 1 and two pages are reported
C7_Witness ==
    /\ resp.op = "comment_query"
    /\ resp.req.page = 0
    /\ resp.req.size = 0
    /\ resp.total = 2
    /\ resp.total_page = 2
    /\ Len(resp.list) = 1

-----------------------------------------------------------------------------
(* Approval of anonymous comments.                                         *)

\* C10: an anonymous comment added while COMMENT_APPROVED is true is stored
\* with approved = 0; while it is pending, the comment query of its memo
\* does not show it to a viewer who is neither admin nor owner of the memo,
\* and shows it to the owner of the memo and to an admin (on a page that
\* holds all comments of the memo).
C10_PendingVisibility ==
    /\ (/\ resp.op = "comment_add"
        /\ resp.code = CodeOk
        /\ resp.user_id = -1
        /\ resp.needs_approval)
          => \E c \in comments :
                c.id = resp.comment_id /\ c.approved = Some(0)
    /\ resp.op = "comment_query"
          => \A c \in comments :
                (/\ c.memo_id = resp.req.memo_id
                 /\ c.user_id < 0
                 /\ c.approved = Some(0))
                  => LET m == c.memo_id
                         is_admin == /\ resp.auth # None
                                     /\ resp.auth[1].role = "ADMIN"
                         is_owner == /\ resp.auth # None
                                     /\ m \in DOMAIN memos
                                     /\ memos[m].user_id
                                           = resp.auth[1].user_id
                         shown == \E i \in DOMAIN resp.list :
                                     resp.list[i].id = c.id
                         whole == /\ resp.offset = 0
                                  /\ resp.size >= Cardinality(
                                        {d \in comments : d.memo_id = m})
                     IN IF is_admin \/ is_owner
                        THEN whole => shown
                        ELSE ~shown


-----------------------------------------------------------------------------
(* Credentials: auth.rs, error.rs, routes/token.rs                         *)

MaxNow == 1          \* seconds the clock advances in one behaviour
MaxTokenId == 3      \* t_dev_token rows ever inserted in one behaviour

\* error.rs: AppError::Biz {code, msg}
no_error == [code |-> 0, msg |-> ""]
need_login == [code |-> 3, msg |-> "please login first"]
\* the source's message is "api token" followed by the Chinese for "has
\* expired"; the model writes it in ASCII
api_token_invalid == [code |-> 3, msg |-> "api token has expired"]
system_exception == [code |-> 99, msg |-> "system_exception"]

\* A signed token is determined by its claims: HS256 over the same header,
\* claims and secret gives the same string.  exp is the issue instant plus a
\* fixed hundred years; the model keeps the issue instant.
generate_token(user_id, device, t) ==
    [valid |-> TRUE, loginId |-> Some(user_id), device |-> Some(device),
     exp |-> t]

\* a string that does not decode under the secret
Garbage == [valid |-> FALSE, loginId |-> None, device |-> None, exp |-> 0]

extract_user_id(decoded) == decoded.loginId

extract_device(decoded) == decoded.device

\* the dev_token query of authenticate_token, restricted to token only
dev_token_exists_any_user(rows, token, user_id) ==
    \E r \in rows : r.token = token

\* find().filter(Token.eq(token)).filter(UserId.eq(user_id)).one().is_some()
dev_token_exists(rows, token, user_id) ==
    \E r \in rows : r.token = token /\ r.user_id = user_id

AuthResult(err, user_id, role, device, lookup) ==
    [ok |-> err = no_error, err |-> err, user_id |-> user_id, role |-> role,
     device |-> device, lookup |-> lookup]

\* authenticate_token; fault names the query the store fails on ("user",
\* "dev_token") or is "none"; lookup tells whether t_dev_token was queried
authenticate_token(rows, token, fault) ==
    IF ~token.valid THEN AuthResult(need_login, 0, None, "", FALSE)
    ELSE IF extract_user_id(token) = None
    THEN AuthResult(need_login, 0, None, "", FALSE)
    ELSE LET user_id == extract_user_id(token)[1]
             role == IF user_id \in Users THEN Some(UserRole(user_id))
                     ELSE None
             device == unwrap_or(extract_device(token), "WEB")
         IN  IF fault = "user"
             THEN AuthResult(system_exception, 0, None, "", FALSE)
             ELSE IF device # "API"
             THEN AuthResult(no_error, user_id, role, device, FALSE)
             ELSE IF fault = "dev_token"
             THEN AuthResult(system_exception, 0, None, "", TRUE)
             ELSE IF ~dev_token_exists(rows, token, user_id)
             THEN AuthResult(api_token_invalid, 0, None, "", TRUE)
             ELSE AuthResult(no_error, user_id, role, device, TRUE)

\* a header value of white space only
Blank == [blank |-> TRUE]

\* extract_token: the header value trimmed, None when absent or empty.
\* A header is None (absent), Some(Blank) or Some(token).
extract_token(header) ==
    IF header = None THEN None
    ELSE IF header[1] = Blank THEN None ELSE header

\* impl FromRequest for AuthUser
from_request(rows, header, fault) ==
    LET token == extract_token(header)
    IN  IF token = None THEN AuthResult(need_login, 0, None, "", FALSE)
        ELSE authenticate_token(rows, token[1], fault)

\* Result::ok() keeps a principal and drops every error
ok(result) == IF result.ok THEN Some(result) ELSE None

\* impl FromRequest for OptionalAuthUser: every branch returns
\* Ok(OptionalAuthUser(..)), with Some(principal) or None
optional_from_request(rows, header, fault) ==
    LET token == extract_token(header)
    IN  [err |-> no_error,
         principal |-> IF token = None THEN None
                       ELSE ok(authenticate_token(rows, token[1], fault))]

DefaultRows(rows, user_id) ==
    {r \in rows : r.name = "default" /\ r.user_id = user_id}

TokenReply(op, err, user_id, id) ==
    [op |-> op, code |-> err.code, user_id |-> user_id, id |-> id]

\* POST /token/enable
enable_token(auth) ==
    /\ nextTokenId <= MaxTokenId
    /\ IF DefaultRows(dev_tokens, auth.user_id) = {}
       THEN /\ dev_tokens' = dev_tokens \cup
                   {[id |-> nextTokenId, name |-> "default",
                     token |-> generate_token(auth.user_id, "API", now),
                     user_id |-> auth.user_id]}
            /\ nextTokenId' = nextTokenId + 1
       ELSE UNCHANGED <<dev_tokens, nextTokenId>>
    /\ resp' = TokenReply("enable", no_error, auth.user_id, 0)
    /\ UNCHANGED revoked

\* POST /token/reset?id=: the row updated is the row of the query's id
reset_token(auth, id) ==
    LET mine == DefaultRows(dev_tokens, auth.user_id)
        new_token == generate_token(auth.user_id, "API", now)
    IN  IF mine = {}
        THEN /\ resp' = TokenReply("reset", [code |-> CodeFail, msg |-> ""],
                                   auth.user_id, id)
             /\ UNCHANGED <<dev_tokens, nextTokenId, revoked>>
        ELSE IF ~\E r \in dev_tokens : r.id = id
        THEN /\ resp' = TokenReply("reset", system_exception, auth.user_id, id)
             /\ UNCHANGED <<dev_tokens, nextTokenId, revoked>>
        ELSE /\ dev_tokens' = {IF r.id = id THEN [r EXCEPT !.token = new_token]
                                ELSE r : r \in dev_tokens}
             /\ revoked' = revoked \cup {r.token : r \in mine}
             /\ resp' = TokenReply("reset", no_error, auth.user_id, id)
             /\ UNCHANGED nextTokenId

\* POST /token/disable
disable_token(auth) ==
    /\ dev_tokens' = dev_tokens \ DefaultRows(dev_tokens, auth.user_id)
    /\ revoked' = revoked \cup
                  {r.token : r \in DefaultRows(dev_tokens, auth.user_id)}
    /\ resp' = TokenReply("disable", no_error, auth.user_id, 0)
    /\ UNCHANGED nextTokenId

-----------------------------------------------------------------------------
(* SpecAuth: issuing, replacing and presenting credentials.                *)

TokenUsers == {2, 3}

\* what a client can put into the token header
Headers ==
    {None, Some(Blank), Some(Garbage),
     Some([valid |-> TRUE, loginId |-> None, device |-> Some("API"),
           exp |-> 0])}
    \cup {Some(generate_token(u, d, t)) :
             u \in TokenUsers, d \in {"API", "WEB"}, t \in 0..MaxNow}
    \cup {Some([valid |-> TRUE, loginId |-> Some(u), device |-> None,
                exp |-> t]) : u \in TokenUsers, t \in 0..MaxNow}

Faults == {"none", "user", "dev_token"}

authOther == <<memos, nextMemoId, tags, nextTagId, resources, comments,
               nextCommentId, relations, nextRelId, sys_config, mentionSeen,
               lastInput, txns, backend, tasks>>

Tick ==
    /\ now < MaxNow
    /\ now' = now + 1
    /\ UNCHANGED <<authOther, dev_tokens, nextTokenId, revoked, resp, reads>>

AuthEnable ==
    \E u \in TokenUsers :
        /\ enable_token(AuthUser(u))
        /\ UNCHANGED <<authOther, now, reads>>

AuthReset ==
    \E u \in TokenUsers, id \in 1..MaxTokenId :
        /\ reset_token(AuthUser(u), id)
        /\ UNCHANGED <<authOther, now, reads>>

AuthDisable ==
    \E u \in TokenUsers :
        /\ disable_token(AuthUser(u))
        /\ UNCHANGED <<authOther, now, reads>>

\* a request to a handler that takes AuthUser
AuthMandatory ==
    \E header \in Headers, fault \in Faults :
        /\ reads < MaxReads
        /\ reads' = reads + 1
        /\ resp' = [op |-> "mandatory", header |-> header, fault |-> fault,
                    result |-> from_request(dev_tokens, header, fault)]
        /\ UNCHANGED <<authOther, dev_tokens, nextTokenId, now, revoked>>

\* a request to a handler that takes OptionalAuthUser
AuthOptional ==
    \E header \in Headers, fault \in Faults :
        /\ reads < MaxReads
        /\ reads' = reads + 1
        /\ resp' = [op |-> "optional", header |-> header, fault |-> fault,
                    result |-> optional_from_request(dev_tokens, header,
                                                     fault)]
        /\ UNCHANGED <<authOther, dev_tokens, nextTokenId, now, revoked>>

InitAuth == EmptyStore(AllOff)

NextAuth ==
    \/ Tick
    \/ AuthEnable
    \/ AuthReset
    \/ AuthDisable
    \/ AuthMandatory
    \/ AuthOptional

SpecAuth == InitAuth /\ [][NextAuth]_vars

\* C11: a credential whose device is API resolves to a principal exactly when
\* a DevToken row holds that token string for that user; when no such row
\* exists the failure is ApiTokenInvalid, which differs from NeedLogin.  A
\* credential whose device is WEB or absent resolves without any DevToken
\* lookup.
C11_ApiTokenNeedsRow ==
    (resp.op = "mandatory" /\ resp.fault = "none" /\ resp.header # None
       /\ resp.header[1] # Blank) =>
        LET token == resp.header[1]
            r == resp.result
        IN  (token.valid /\ token.loginId # None) =>
              /\ token.device = Some("API") =>
                   /\ r.ok <=> \E row \in dev_tokens :
                                  /\ row.token = token
                                  /\ row.user_id = token.loginId[1]
                   /\ ~r.ok => (r.err = api_token_invalid
                                  /\ r.err # need_login)
                   /\ r.ok => r.user_id = token.loginId[1]
              /\ token.device \in {None, Some("WEB")} =>
                   /\ r.ok
                   /\ ~r.lookup
                   /\ r.user_id = token.loginId[1]

\* an API credential was refused with ApiTokenInvalid although its string is
\* stored, in a row of another user
C11_Witness ==
    /\ resp.op = "mandatory"
    /\ resp.fault = "none"
    /\ resp.header # None
    /\ resp.header[1] # Blank
    /\ resp.header[1].valid
    /\ resp.header[1].device = Some("API")
    /\ resp.result.err = api_token_invalid
    /\ \E row \in dev_tokens : row.token = resp.header[1]

\* C12: once reset_token or disable_token has completed, the token string it
\* replaced or deleted no longer resolves: presenting it fails with
\* ApiTokenInvalid (revoked collects the caller's stored strings at every
\* completed reset and disable).
C12_RevokedTokenRejected ==
    \A token \in revoked :
        authenticate_token(dev_tokens, token, "none").err = api_token_invalid

\* the store query of authenticate_token that fault names is reached for header
FaultHits(header, fault) ==
    /\ extract_token(header) # None
    /\ header[1].valid
    /\ extract_user_id(header[1]) # None
    /\ \/ fault = "user"
       \/ fault = "dev_token" /\ extract_device(header[1]) = Some("API")

\* C18: with optional authentication an absent or blank credential, and a
\* credential failing with NeedLogin or ApiTokenInvalid, give a request
\* without principal, while a store failure during resolution is passed on as
\* SystemException; with mandatory authentication a store failure gives
\* SystemException, never NeedLogin.
C18_StoreFailurePropagates ==
    /\ resp.op = "optional" =>
         LET strict == from_request(dev_tokens, resp.header, resp.fault)
         IN  /\ strict.err \in {need_login, api_token_invalid} =>
                  resp.result = [err |-> no_error, principal |-> None]
             /\ FaultHits(resp.header, resp.fault) =>
                  resp.result.err = system_exception
    /\ (resp.op = "mandatory" /\ FaultHits(resp.header, resp.fault)) =>
         resp.result.err = system_exception


-----------------------------------------------------------------------------
(* Tag handlers: routes/tag.rs                                             *)

MaxTagId == 2        \* t_tag rows ever inserted in one behaviour

\* The table definitions (changelog-sqlite.sql and the MySQL schema) are not
\* part of the sources.  The specification names no constraint on t_tag and
\* says of the relation table that its duplicate check does not rely on one:
\* the tables are taken without unique index besides the primary key.
UniqueTagIndex == FALSE

\* sql: tags like '%{pat}' for a pattern without wild cards
like_suffix(s, pat) ==
    /\ Len(s) >= Len(pat)
    /\ SubSeq(s, Len(s) - Len(pat) + 1, Len(s)) = pat

RECURSIVE replacen(_, _, _, _)
\* str::replacen(from, to, count)
replacen(s, from, to, count) ==
    IF count = 0 \/ Len(s) < Len(from) THEN s
    ELSE IF SubSeq(s, 1, Len(from)) = from
         THEN to \o replacen(SubSeq(s, Len(from) + 1, Len(s)), from, to,
                             count - 1)
         ELSE <<Head(s)>> \o replacen(Tail(s), from, to, count)

\* delete_many().filter(user_id).filter(id), without the memo_count filter
tag_delete_any_count(tbl, user_id, id) ==
    {r \in tbl : ~(r.user_id = user_id /\ r.id = id)}

\* delete_many().filter(user_id).filter(id).filter(memo_count = 0)
tag_delete(tbl, user_id, id) ==
    {r \in tbl : ~(r.user_id = user_id /\ r.id = id /\ r.memo_count = 0)}

\* POST /tag/remove?id=
tag_remove(auth, id) ==
    /\ tags' = tag_delete(tags, auth.user_id, id)
    /\ resp' = Reply("tag_remove", CodeOk, auth.user_id, id)
    /\ UNCHANGED <<memos, nextMemoId, nextTagId, resources, comments,
                   nextCommentId, relations, nextRelId, sys_config,
                   mentionSeen, reads, ext, tasks>>

\* one round of the loop of save over the items: the tag row is renamed and
\* the memos the like pattern selects are rewritten
tag_save_item(db, item, t) ==
    IF ~\E r \in db.tags : r.id = item.id
    THEN [db EXCEPT !.ok = FALSE]
    ELSE LET old == CHOOSE r \in db.tags : r.id = item.id
             from == old.name \o <<",">>
             to == item.name \o <<",">>
         IN [ok |-> TRUE,
             tags |-> {IF r.id = item.id THEN [r EXCEPT !.name = item.name]
                       ELSE r : r \in db.tags},
             memos |-> [i \in DOMAIN db.memos |->
                          IF like_suffix(db.memos[i].tags, from)
                          THEN [db.memos[i] EXCEPT
                                  !.tags = replacen(@, from, to, 1),
                                  !.updated = t]
                          ELSE db.memos[i]]]

RECURSIVE tag_save_items(_, _, _)
\* for item in items { .. }: stops at the first item that fails, with the
\* writes of the items before it done inside the transaction
tag_save_items(db, items, t) ==
    IF items = <<>> \/ ~db.ok THEN db
    ELSE tag_save_items(tag_save_item(db, Head(items), t), Tail(items), t)

\* the writes of a transaction are kept although it returned Err
rollback_keeps_writes(before, partial) == partial

\* db.transaction(..): when the closure returns Err the transaction is rolled
\* back, the tables are as before it began
rollback(before, partial) == before

\* POST /tag/save
tag_save(auth, items) ==
    IF items = None
    THEN /\ resp' = [op |-> "tag_save", code |-> CodeParamError,
                     user_id |-> auth.user_id, dirty |-> FALSE]
         /\ UNCHANGED store
    ELSE LET begin == [ok |-> TRUE, tags |-> tags, memos |-> memos]
             r == tag_save_items(begin, items[1], now)
         IN /\ tags' = IF r.ok THEN r.tags ELSE rollback(tags, r.tags)
            /\ memos' = IF r.ok THEN r.memos ELSE rollback(memos, r.memos)
            /\ resp' = [op |-> "tag_save",
                        code |-> IF r.ok THEN CodeOk ELSE CodeFail,
                        user_id |-> auth.user_id,
                        dirty |-> (r.tags # tags \/ r.memos # memos)]
            /\ UNCHANGED <<nextMemoId, nextTagId, resources, comments,
                           nextCommentId, relations, nextRelId, sys_config,
                           mentionSeen, reads, ext, tasks>>


-----------------------------------------------------------------------------
(* SpecTag: memos with hashtags, tag rename and tag removal.               *)

TagOwners == {2}

TagCallers == {2, 3}

TagSaveContents ==
    { <<"#", "a", " ", "#", "a">>,
      <<"#", "a", " ", "#", "b">>,
      <<"x">> }

TagNewNames == { <<"#", "a">>, <<"#", "c">> }

TagUpdateDto(id, name) == [id |-> id, name |-> name]

\* SaveTagRequest.list: absent, one item, or two items of which the second
\* names a row that was never inserted
SaveTagLists ==
    {None}
    \cup {Some(<<TagUpdateDto(id, n)>>) : id \in 1..MaxTagId, n \in TagNewNames}
    \cup {Some(<<TagUpdateDto(id, n), TagUpdateDto(MaxTagId + 1, n)>>) :
             id \in 1..MaxTagId, n \in TagNewNames}

\* the request inserts no tag row beyond MaxTagId
TagIdsBounded(u, content) ==
    nextTagId + Len(NewTagNames(u, content)) <= MaxTagId + 1

TagMemoSave ==
    \E u \in TagOwners, c \in TagSaveContents :
        /\ TagIdsBounded(u, c)
        /\ Save(AuthUser(u), Payload(c, <<>>, None, None), UniqueTagIndex)
        /\ UNCHANGED lastInput

TagMemoUpdate ==
    \E id \in DOMAIN memos, c \in TagSaveContents :
        /\ TagIdsBounded(memos[id].user_id, c)
        /\ Update(AuthUser(memos[id].user_id), Some(id),
                  Payload(c, <<>>, None, None), UniqueTagIndex)
        /\ UNCHANGED lastInput

TagMemoRemove ==
    \E id \in DOMAIN memos :
        /\ Remove(AuthUser(memos[id].user_id), id)
        /\ UNCHANGED lastInput

TagSave ==
    \E u \in TagOwners, items \in SaveTagLists :
        /\ tag_save(AuthUser(u), items)
        /\ UNCHANGED lastInput

TagRemove ==
    \E u \in TagCallers, id \in 1..MaxTagId :
        /\ tag_remove(AuthUser(u), id)
        /\ UNCHANGED lastInput

InitTag == EmptyStore(AllOff)

NextTag ==
    \/ TagMemoSave
    \/ TagMemoUpdate
    \/ TagMemoRemove
    \/ TagSave
    \/ TagRemove

SpecTag == InitTag /\ [][NextTag]_vars


\* C14: whatever memos were created, updated and deleted and whatever tags
\* were renamed, no two Tag rows have the same user id and the same name.
C14_OneRowPerUserAndName ==
    \A r1, r2 \in tags :
        (r1.user_id = r2.user_id /\ r1.name = r2.name) => r1 = r2

\* the tag field holds the token name followed by a comma
HasToken(field, name) == \E i \in DOMAIN split_tags(field) :
                            split_tags(field)[i] = name

\* the field with every token old replaced by new
Renamed(field, old, new) ==
    format_tags([i \in DOMAIN split_tags(field) |->
                   IF split_tags(field)[i] = old THEN new
                   ELSE split_tags(field)[i]])

\* C19: when a rename request succeeds and has changed the name of a Tag row
\* from old to new, every memo whose tag field held the token old, at any
\* position, holds new in its place and carries the time of the rename as
\* its updated timestamp, and no memo's tag field holds the token old any
\* more.
C19_RenameRewritesMemos ==
    [][(resp'.op = "tag_save" /\ resp'.code = CodeOk) =>
         \A r \in tags : \A r2 \in tags' :
            (r2.id = r.id /\ r2.name # r.name) =>
               \A i \in DOMAIN memos :
                  /\ i \in DOMAIN memos'
                  /\ ~HasToken(memos'[i].tags, r.name)
                  /\ HasToken(memos[i].tags, r.name) =>
                       /\ memos'[i].tags = Renamed(memos[i].tags, r.name,
                                                   r2.name)
                       /\ memos'[i].updated = now]_vars

\* C20: a remove-tag request answers success; the only Tag row it can delete
\* is the row of the given id, and only if that row belongs to the caller and
\* has memo_count 0; if the row has memo_count >= 1 or another owner, every
\* Tag row is as before; memos are not touched.
C20_RemoveOnlyOwnUnused ==
    [][resp'.op = "tag_remove" =>
         /\ resp'.code = CodeOk
         /\ tags' \subseteq tags
         /\ \A r \in tags \ tags' :
               /\ r.id = resp'.id
               /\ r.user_id = resp'.user_id
               /\ r.memo_count = 0
         /\ \A r \in tags :
               (r.id = resp'.id /\ r.user_id = resp'.user_id
                  /\ r.memo_count = 0) => r \notin tags'
         /\ memos' = memos]_vars

\* the last request was a remove-tag refused for a row in use or of another
\* user, and an earlier one has deleted a row
C20_Witness ==
    /\ resp.op = "tag_remove"
    /\ \E r \in tags : /\ r.id = resp.id
                       /\ (r.memo_count >= 1 \/ r.user_id # resp.user_id)
    /\ \E id \in 1..(nextTagId - 1) : \A r \in tags : r.id # id


-----------------------------------------------------------------------------
(* SpecCount: the counters of memos and tags under saves, updates,         *)
(* removals, likes and comments.                                           *)

CountContents ==
    { <<"#", "a">>,
      <<"#", "a", " ", "#", "a">>,
      <<"x">> }

CountSave ==
    \E c \in CountContents :
        /\ TagIdsBounded(2, c)
        /\ Save(AuthUser(2), Payload(c, <<>>, None, Some(TRUE)),
                UniqueTagIndex)
        /\ UNCHANGED lastInput

CountUpdate ==
    \E id \in DOMAIN memos, c \in CountContents :
        /\ TagIdsBounded(2, c)
        /\ Update(AuthUser(2), Some(id), Payload(c, <<>>, None, None),
                  UniqueTagIndex)
        /\ UNCHANGED lastInput

CountRemove ==
    \E id \in DOMAIN memos :
        /\ Remove(AuthUser(2), id)
        /\ UNCHANGED lastInput

CountLike ==
    \E u \in {2, 3}, o \in {"ADD", "REMOVE"} :
        /\ nextRelId <= MaxRelId
        /\ Relation(AuthUser(u), 1, "LIKE", o)
        /\ UNCHANGED lastInput

CountComment ==
    /\ comment_add(None, SaveCommentRequest(<<"x">>, 1, <<"n">>))
    /\ UNCHANGED lastInput

InitCount == EmptyStore(Settings(TRUE, TRUE, TRUE, FALSE))

NextCount ==
    \/ CountSave
    \/ CountUpdate
    \/ CountRemove
    \/ CountLike
    \/ CountComment

SpecCount == InitCount /\ [][NextCount]_vars

\* C15: no counter is ever negative: memo_count of every Tag row, like_count
\* and comment_count of every memo.
C15_CountersNonNegative ==
    /\ \A r \in tags : r.memo_count >= 0
    /\ \A i \in DOMAIN memos :
          /\ memos[i].like_count >= 0
          /\ memos[i].comment_count >= 0

\* decrements have brought a tag count and a like count back to 0: a tag row
\* (inserted with count 1) stands at 0, and memo 1 stands at like_count 0
\* after a like was added and removed
C15_Witness ==
    /\ \E r \in tags : r.memo_count = 0
    /\ 1 \in DOMAIN memos
    /\ memos[1].like_count = 0
    /\ nextRelId > 1
    /\ relations = {}


-----------------------------------------------------------------------------
(* Transactions that fail part way.  Every handler below runs its writes   *)
(* inside db.transaction; a statement that returns Err ends the closure    *)
(* and the transaction is rolled back.                                     *)

\* the rows of the store
Tables ==
    [memos |-> memos, tags |-> tags, resources |-> resources,
     comments |-> comments, relations |-> relations]

\* the tables after each statement of the transaction of save
save_statements(t, auth, p, memo_id, tag_id) ==
    LET inserted == NewMemo(memo_id, auth, p)
        s1 == [t EXCEPT !.memos = [i \in DOMAIN t.memos \cup {memo_id} |->
                                     IF i = memo_id THEN inserted
                                     ELSE t.memos[i]]]
        s2 == [s1 EXCEPT !.tags =
                 sync_tags_on_save(t.tags, tag_id, auth.user_id,
                                   parse_tags(p.content), UniqueTagIndex).tags]
        s3 == [s2 EXCEPT !.resources =
                 attach_resources(t.resources, memo_id, p.public_ids)]
    IN <<s1, s2, s3>>

\* the tables after each statement of the transaction of update
update_statements(t, auth, id, p, tag_id) ==
    LET tgs == parse_tags(p.content)
        s1 == [t EXCEPT !.memos[id] =
                 [@ EXCEPT !.tags = format_tags(tgs),
                           !.updated = now,
                           !.content = trim(replace_first_line(p.content,
                                                               tgs))]]
        s2 == [s1 EXCEPT !.tags =
                 sync_tags_on_update(t.tags, tag_id, auth.user_id, tgs,
                                     split_tags(t.memos[id].tags),
                                     UniqueTagIndex).tags]
        s3 == [s2 EXCEPT !.resources = clear_memo_resources(t.resources, id)]
        s4 == [s3 EXCEPT !.resources =
                 attach_resources(s3.resources, id, p.public_ids)]
    IN <<s1, s2, s3, s4>>

\* the tables after each statement of the transaction of remove
remove_statements(t, auth, memo_id) ==
    LET s1 == [t EXCEPT !.tags =
                 DecrementEach(t.tags, auth.user_id,
                               split_tags(t.memos[memo_id].tags))]
        s2 == [s1 EXCEPT !.resources =
                 [pid \in {q \in DOMAIN t.resources :
                              t.resources[q] # memo_id} |-> t.resources[pid]]]
        s3 == [s2 EXCEPT !.memos =
                 [i \in DOMAIN t.memos \ {memo_id} |-> t.memos[i]]]
        s4 == [s3 EXCEPT !.comments =
                 {c \in t.comments : c.memo_id # memo_id}]
    IN <<s1, s2, s3, s4>>

\* the tables after each statement of the transaction of comment add
comment_statements(t, memo_id, comment_id) ==
    LET s1 == [t EXCEPT !.memos[memo_id].comment_count = @ + 1]
        s2 == [s1 EXCEPT !.comments = @ \cup
                 {[id |-> comment_id, memo_id |-> memo_id,
                   content |-> <<"x">>, user_id |-> -1, user_name |-> <<"n">>,
                   mentioned |-> <<>>, mentioned_user_id |-> <<>>,
                   created |-> comment_id, approved |-> Some(1)]}]
    IN <<s1, s2>>

\* the tables after each statement of the transactions of relation
relation_statements(t, auth, memo_id, fav_type, operate_type, rel_id) ==
    IF operate_type = "ADD"
    THEN LET s1 == [t EXCEPT !.relations = @ \cup
                      {[id |-> rel_id, memo_id |-> memo_id,
                        user_id |-> auth.user_id, fav_type |-> fav_type]}]
             s2 == [s1 EXCEPT !.memos =
                      relation_add(t.memos, t.relations, rel_id, memo_id,
                                   auth.user_id, fav_type).memos]
         IN <<s1, s2>>
    ELSE LET r == relation_remove(t.memos, t.relations, memo_id,
                                  auth.user_id, fav_type)
             s1 == [t EXCEPT !.relations = r.relations]
             s2 == [s1 EXCEPT !.memos = r.memos]
         IN <<s1, s2>>

\* the transaction ends with Err at its statement k, after the writes of the
\* statements before it: AppError::system_exception, rolled back
Abort(op, statements, k) ==
    LET partial == IF k = 1 THEN Tables ELSE statements[k - 1]
    IN /\ memos' = rollback(memos, partial.memos)
       /\ tags' = rollback(tags, partial.tags)
       /\ resources' = rollback(resources, partial.resources)
       /\ comments' = rollback(comments, partial.comments)
       /\ relations' = rollback(relations, partial.relations)
       /\ resp' = [op |-> op, code |-> CodeSystemException, user_id |-> 0,
                   dirty |-> partial # Tables]
       /\ UNCHANGED <<nextMemoId, nextTagId, nextCommentId, nextRelId,
                      sys_config, mentionSeen, reads, ext, tasks, lastInput>>

-----------------------------------------------------------------------------
(* SpecFault: the handlers with a transaction, and store failures inside   *)
(* their transactions.                                                     *)

FaultContents == { <<"#", "a">>, <<"x">> }

FaultSaveOk ==
    \E c \in FaultContents :
        /\ TagIdsBounded(2, c)
        /\ Save(AuthUser(2), Payload(c, <<>>, None, Some(TRUE)),
                UniqueTagIndex)
        /\ UNCHANGED lastInput

FaultCommentOk ==
    /\ comment_add(None, SaveCommentRequest(<<"x">>, 1, <<"n">>))
    /\ UNCHANGED lastInput

FaultRelationOk ==
    \E o \in {"ADD", "REMOVE"} :
        /\ nextRelId <= MaxRelId
        /\ Relation(AuthUser(2), 1, "LIKE", o)
        /\ UNCHANGED lastInput

\* includes the requests whose second item names no row: BusinessFail after
\* the first item was written
FaultTagSave ==
    \E items \in SaveTagLists :
        /\ tag_save(AuthUser(2), items)
        /\ UNCHANGED lastInput

FaultSave ==
    \E c \in FaultContents, k \in 1..3 :
        /\ nextMemoId <= MaxMemoId
        /\ TagIdsBounded(2, c)
        /\ Abort("save",
                 save_statements(Tables, AuthUser(2),
                                 Payload(c, <<>>, None, Some(TRUE)),
                                 nextMemoId, nextTagId), k)

FaultUpdate ==
    \E id \in DOMAIN memos, c \in FaultContents, k \in 1..4 :
        /\ TagIdsBounded(2, c)
        /\ Abort("update",
                 update_statements(Tables, AuthUser(2), id,
                                   Payload(c, <<>>, None, None), nextTagId),
                 k)

FaultRemove ==
    \E id \in DOMAIN memos, k \in 1..4 :
        Abort("remove", remove_statements(Tables, AuthUser(2), id), k)

FaultComment ==
    \E k \in 1..2 :
        /\ 1 \in DOMAIN memos
        /\ nextCommentId <= MaxComments
        /\ Abort("comment",
                 comment_statements(Tables, 1, nextCommentId), k)

FaultRelation ==
    \E o \in {"ADD", "REMOVE"}, k \in 1..2 :
        /\ 1 \in DOMAIN memos
        /\ o = "ADD" => relation_count(relations, 1, 2, "LIKE") = 0
        /\ Abort("relation",
                 relation_statements(Tables, AuthUser(2), 1, "LIKE", o,
                                     nextRelId), k)

\* a store failure at the second item of a rename request
FaultTagSaveStore ==
    \E id \in 1..MaxTagId, n \in TagNewNames :
        LET r == tag_save_items([ok |-> TRUE, tags |-> tags, memos |-> memos],
                                <<TagUpdateDto(id, n)>>, now)
        IN /\ r.ok
           /\ Abort("tag_save",
                    <<[Tables EXCEPT !.tags = r.tags, !.memos = r.memos]>>, 2)

InitFault == EmptyStore(Settings(TRUE, TRUE, TRUE, FALSE))

NextFault ==
    \/ FaultSaveOk
    \/ FaultCommentOk
    \/ FaultRelationOk
    \/ FaultTagSave
    \/ FaultSave
    \/ FaultUpdate
    \/ FaultRemove
    \/ FaultComment
    \/ FaultRelation
    \/ FaultTagSaveStore

SpecFault == InitFault /\ [][NextFault]_vars

\* C13: when a request of create-memo, update-memo, delete-memo, add-comment,
\* like ADD / REMOVE or rename-tag ends with an error, every memo, tag,
\* resource, comment and relation row, with its counters, is as it was before
\* the request.
C13_FailedTransactionLeavesStore ==
    [][resp'.code # CodeOk => Tables' = Tables]_vars

\* a transaction that had already written has failed
C13_Witness ==
    /\ resp.code # CodeOk
    /\ "dirty" \in DOMAIN resp
    /\ resp.dirty


-----------------------------------------------------------------------------
(* Concurrent relation requests: routes/memo.rs::relation, config.rs       *)

MaxTxns == 2         \* relation ADD transactions open at the same time

\* config.rs database_url: MySQL unless DB_TYPE is "-sqlite"
Backends == {"mysql", "sqlite"}

\* The definition of t_user_memo_relation is not part of the sources; the
\* specification says the duplicate check does not rely on a uniqueness
\* constraint: the table is taken without one.
UniqueRelationIndex == FALSE

\* relation ADD up to the count query: the transaction begins and reads the
\* number of rows of the triple; with count > 0 it ends at once with fail
relation_begin(auth, memo_id, fav_type, slot) ==
    IF ~get_boolean("OPEN_LIKE")
    THEN /\ resp' = Reply("relation", CodeFail, auth.user_id, memo_id)
         /\ UNCHANGED <<memos, relations, nextRelId, txns>>
    ELSE IF relation_count(relations, memo_id, auth.user_id, fav_type) > 0
    THEN /\ resp' = Reply("relation", CodeFail, auth.user_id, memo_id)
         /\ UNCHANGED <<memos, relations, nextRelId, txns>>
    ELSE /\ txns' = txns \cup {[slot |-> slot, user_id |-> auth.user_id,
                                memo_id |-> memo_id, fav_type |-> fav_type,
                                stale |-> FALSE]}
         /\ resp' = Reply("begin", CodeOk, auth.user_id, memo_id)
         /\ UNCHANGED <<memos, relations, nextRelId>>

\* the open transactions after another transaction has committed writes: on
\* SQLite their snapshot is out of date, and their next write is refused
others_after_commit(open) ==
    IF backend = "sqlite" THEN {[t EXCEPT !.stale = TRUE] : t \in open}
    ELSE open

\* relation ADD from the insert to the commit.  MySQL (repeatable read): the
\* count was a snapshot read that locks nothing, the insert and the increment
\* go through.  SQLite: a transaction whose snapshot is out of date cannot
\* write, the insert returns an error, which becomes system_exception.
relation_finish(t) ==
    LET duplicate == relation_count(relations, t.memo_id, t.user_id,
                                    t.fav_type) > 0
    IN IF t.stale \/ (UniqueRelationIndex /\ duplicate)
       THEN /\ txns' = txns \ {t}
            /\ resp' = Reply("relation", CodeSystemException, t.user_id,
                             t.memo_id)
            /\ UNCHANGED <<memos, relations, nextRelId>>
       ELSE LET r == relation_add_unchecked(memos, relations, nextRelId,
                                            t.memo_id, t.user_id, t.fav_type)
            IN /\ memos' = r.memos
               /\ relations' = r.relations
               /\ nextRelId' = r.nextRelId
               /\ txns' = others_after_commit(txns \ {t})
               /\ resp' = Reply("relation", CodeOk, t.user_id, t.memo_id)

\* relation REMOVE: its delete and its decrement lock the rows they write,
\* the transaction is taken as one step
relation_remove_txn(auth, memo_id, fav_type) ==
    IF ~get_boolean("OPEN_LIKE")
    THEN /\ resp' = Reply("relation", CodeFail, auth.user_id, memo_id)
         /\ UNCHANGED <<memos, relations, nextRelId, txns>>
    ELSE LET r == relation_remove(memos, relations, memo_id, auth.user_id,
                                  fav_type)
         IN /\ memos' = r.memos
            /\ relations' = r.relations
            /\ txns' = IF r.relations # relations
                       THEN others_after_commit(txns) ELSE txns
            /\ resp' = Reply("relation", CodeOk, auth.user_id, memo_id)
            /\ UNCHANGED nextRelId

-----------------------------------------------------------------------------
(* SpecRace: relation requests of two users for one memo, overlapping.     *)

RaceUsers == {2, 3}

raceOther == <<nextMemoId, tags, nextTagId, resources, comments,
               nextCommentId, sys_config, mentionSeen, reads, lastInput,
               dev_tokens, nextTokenId, now, revoked, backend, tasks>>

RaceSave ==
    /\ txns = {}
    /\ Save(AuthUser(2), Payload(<<"x">>, <<>>, None, None), UniqueTagIndex)
    /\ UNCHANGED lastInput

RaceBegin ==
    \E u \in RaceUsers, slot \in 1..MaxTxns :
        /\ 1 \in DOMAIN memos
        /\ \A t \in txns : t.slot # slot
        /\ nextRelId + Cardinality(txns) <= MaxRelId
        /\ relation_begin(AuthUser(u), 1, "LIKE", slot)
        /\ UNCHANGED raceOther

RaceFinish ==
    \E t \in txns :
        /\ relation_finish(t)
        /\ UNCHANGED raceOther

RaceRemove ==
    \E u \in RaceUsers :
        /\ 1 \in DOMAIN memos
        /\ relation_remove_txn(AuthUser(u), 1, "LIKE")
        /\ UNCHANGED raceOther

InitRace ==
    \E db \in Backends, open_like \in BOOLEAN :
        EmptyDb(Settings(open_like, FALSE, FALSE, FALSE), db)

NextRace == RaceSave \/ RaceBegin \/ RaceFinish \/ RaceRemove

SpecRace == InitRace /\ [][NextRace]_vars

\* the users holding a LIKE row for the memo
LikeHolders(memo_id) ==
    {u \in Users : relation_count(relations, memo_id, u, "LIKE") > 0}

\* C16: however relation ADD and REMOVE requests overlap, there is never more
\* than one LIKE row of a user for a memo, and a memo's like_count never
\* exceeds the number of users who hold a LIKE row for it.
C16_OneLikePerUser ==
    \A m \in DOMAIN memos :
        /\ \A u \in Users : relation_count(relations, m, u, "LIKE") <= 1
        /\ memos[m].like_count <= Cardinality(LikeHolders(m))


-----------------------------------------------------------------------------
(* Webhook: routes/memo.rs::notify_webhook, sys_config.rs                  *)

\* sys_config::get_string: None when the key has no row
get_string(key) ==
    IF key \in DOMAIN sys_config THEN Some(sys_config[key]) ELSE None

\* the test of notify_webhook without the visibility part
should_notify_any_visibility(memo_item, url) == url # ""

\* notify_webhook returns Ok(()) without posting when this does not hold
should_notify(memo_item, url) ==
    ~(memo_item.visibility # "PUBLIC" \/ url = "")

\* The spawned task: notify_webhook(db, memo_id), its Result discarded.
\* outcome is what the environment does to it: "store_error" (a query of the
\* task fails), "send_failed" or "delivered" (the result of req.send()).
notify_webhook(memo_id, outcome) ==
    LET url == unwrap_or(get_string("WEB_HOOK_URL"), "")
    IN /\ hooks' = hooks \ {memo_id}
       /\ sent' = IF /\ outcome # "store_error"
                     /\ memo_id \in DOMAIN memos
                     /\ should_notify(memos[memo_id], url)
                  THEN sent \cup {[memo_id |-> memo_id, url |-> url,
                                   delivered |-> outcome = "delivered"]}
                  ELSE sent
       /\ UNCHANGED <<memos, nextMemoId, tags, nextTagId, resources, comments,
                      nextCommentId, relations, nextRelId, sys_config,
                      mentionSeen, reads, ext, resp, lastInput>>

-----------------------------------------------------------------------------
(* SpecWebhook: memos are created, changed and deleted, the webhook        *)
(* setting changes, and the spawned tasks run at any later time or never.  *)

HookUrls == {"", "http://subscriber"}

HookSettings(url) ==
    [OPEN_LIKE |-> FALSE, OPEN_COMMENT |-> FALSE, ANONYMOUS_COMMENT |-> FALSE,
     COMMENT_APPROVED |-> FALSE, WEB_HOOK_URL |-> url]

HookVisibilities == {"PUBLIC", "PRIVATE"}

\* an empty content without resources is rejected before the transaction
HookSave ==
    \E c \in {<<>>, <<"x">>}, v \in HookVisibilities :
        /\ Save(AuthUser(2), Payload(c, <<>>, Some(v), None), UniqueTagIndex)
        /\ UNCHANGED lastInput

HookUpdate ==
    \E id \in DOMAIN memos, v \in HookVisibilities :
        /\ Update(AuthUser(2), Some(id), Payload(<<"x">>, <<>>, Some(v), None),
                  UniqueTagIndex)
        /\ UNCHANGED lastInput

HookRemove ==
    \E id \in DOMAIN memos :
        /\ Remove(AuthUser(2), id)
        /\ UNCHANGED lastInput

\* the administrator changes the webhook setting
HookConfigure ==
    \E url \in HookUrls :
        /\ sys_config' = [sys_config EXCEPT !.WEB_HOOK_URL = url]
        /\ UNCHANGED <<memos, nextMemoId, tags, nextTagId, resources, comments,
                       nextCommentId, relations, nextRelId, mentionSeen,
                       reads, ext, tasks, resp, lastInput>>

HookRun ==
    \E memo_id \in hooks,
       outcome \in {"store_error", "send_failed", "delivered"} :
        notify_webhook(memo_id, outcome)

InitWebhook == \E url \in HookUrls : EmptyStore(HookSettings(url))

NextWebhook ==
    \/ HookSave
    \/ HookUpdate
    \/ HookRemove
    \/ HookConfigure
    \/ HookRun

SpecWebhook == InitWebhook /\ [][NextWebhook]_vars

\* C17: a webhook task is started only by a create-memo that has committed
\* and answers success; a notification is posted only for a memo that is
\* PUBLIC while a webhook URL is configured; and the run of a task, whatever
\* its outcome, leaves the answer of create-memo and the memo, tag and
\* resource rows as they are.
C17_WebhookAfterCommit ==
    [][/\ \A id \in hooks' \ hooks :
             /\ resp'.op = "save"
             /\ resp'.code = CodeOk
             /\ resp'.id = id
             /\ id \in DOMAIN memos'
       /\ \A s \in sent' \ sent :
             /\ s.memo_id \in DOMAIN memos
             /\ memos[s.memo_id].visibility = "PUBLIC"
             /\ sys_config.WEB_HOOK_URL # ""
       /\ hooks' # hooks /\ hooks' \subseteq hooks =>
             /\ resp' = resp
             /\ memos' = memos
             /\ tags' = tags
             /\ resources' = resources]_vars

\* both tasks have run: a notification was posted for memo 1 and its delivery
\* failed, the task of memo 2 has ended without posting, and the last answer
\* is still the success of a create-memo
C17_Witness ==
    /\ hooks = {}
    /\ nextMemoId > 2
    /\ \E s \in sent : s.memo_id = 1 /\ ~s.delivered
    /\ \A s \in sent : s.memo_id # 2
    /\ resp.op = "save"
    /\ resp.code = CodeOk

-----------------------------------------------------------------------------
(* Resources and deletion: two files have been uploaded and are attached   *)
(* to no memo; user 2 posts and updates memos with lists of their public   *)
(* ids; user 3 comments; the admin, the owner and user 3 delete memos,     *)
(* existing ones and missing ones.                                         *)

ResIds == {"r1", "r2"}

\* the public id lists of the requests: none, one, both, one twice
ResLists == {<<>>, <<"r1">>, <<"r2">>, <<"r1", "r2">>, <<"r1", "r1">>}

ResContents == { <<"#", "a">>, <<"x">> }

ResCallers == {1, 2, 3}

\* the database after the uploads of routes/resource.rs: every resource
\* row has memo_id 0
Uploaded(cfg, ids) ==
    /\ dev_tokens = {}
    /\ nextTokenId = 1
    /\ now = 0
    /\ revoked = {}
    /\ txns = {}
    /\ backend = "mysql"
    /\ hooks = {}
    /\ sent = {}
    /\ memos = <<>>
    /\ nextMemoId = 1
    /\ tags = {}
    /\ nextTagId = 1
    /\ resources = [pid \in ids |-> 0]
    /\ comments = {}
    /\ nextCommentId = 1
    /\ relations = {}
    /\ nextRelId = 1
    /\ sys_config = cfg
    /\ mentionSeen = {}
    /\ reads = 0
    /\ resp = Reply("none", CodeOk, 0, 0)
    /\ lastInput = <<>>

ResSave ==
    \E c \in ResContents, ids \in ResLists :
        /\ Save(AuthUser(2), Payload(c, ids, None, Some(TRUE)), TRUE)
        /\ lastInput' = ids

ResUpdate ==
    \E id \in DOMAIN memos, c \in ResContents, ids \in ResLists :
        /\ Update(AuthUser(memos[id].user_id), Some(id),
                  Payload(c, ids, None, None), TRUE)
        /\ lastInput' = ids

ResComment ==
    \E id \in DOMAIN memos :
        /\ comment_add(Some(AuthUser(3)),
                       SaveCommentRequest(<<"x">>, id, <<"n">>))
        /\ lastInput' = <<>>

ResRemove ==
    \E u \in ResCallers, id \in 1..MaxMemoId :
        /\ Remove(AuthUser(u), id)
        /\ lastInput' = <<>>

InitRes == Uploaded(Settings(FALSE, TRUE, FALSE, FALSE), ResIds)

NextRes == ResSave \/ ResUpdate \/ ResComment \/ ResRemove

SpecRes == InitRes /\ [][NextRes]_vars

\* the memo m taken away by the step, with all that hangs on it
Cascaded(m) ==
    /\ m \notin DOMAIN memos'
    /\ \A pid \in DOMAIN resources' : resources'[pid] # m
    /\ \A c \in comments' : c.memo_id # m

\* the rows of the owner of memo m for the tags of m are one lower after
\* the step, or stay 0
OwnerTagsDecremented(m) ==
    \A r \in tags :
        (r.user_id = memos[m].user_id /\ r.name \in TagNames(memos[m])) =>
            \E r2 \in tags' :
                r2.id = r.id /\ r2.memo_count = max(r.memo_count - 1, 0)

\* C21: after a successful delete of memo m by its owner or an admin the
\* memo row, every resource row and every comment row of m are gone and
\* every tag named in the tag field of m counts one less (never below 0)
C21_RemoveCascades ==
    [][\A m \in DOMAIN memos :
          (resp'.op = "remove" /\ resp'.id = m /\ resp'.code = CodeOk) =>
              Cascaded(m) /\ OwnerTagsDecremented(m)]_vars

\* C22: a delete of an id that has no memo row answers success to every
\* caller and leaves the memo, tag, resource and comment rows as they
\* were, so that a second delete of the same id changes nothing more
C22_RemoveMissingIsNoOp ==
    [][(resp'.op = "remove" /\ resp'.id \notin DOMAIN memos) =>
          resp'.code = CodeOk /\ Tables' = Tables]_vars

\* a delete of a memo that an earlier delete took away, by a caller who is
\* not its owner, has been answered while rows of another memo are stored
C22_Witness ==
    /\ resp.op = "remove"
    /\ resp.code = CodeOk
    /\ resp.user_id = 3
    /\ resp.id \notin DOMAIN memos
    /\ resp.id < nextMemoId
    /\ DOMAIN memos # {}
    /\ \E r \in tags : r.memo_count > 0
    /\ \E pid \in DOMAIN resources : resources[pid] \in DOMAIN memos
    /\ comments # {}

-----------------------------------------------------------------------------
(* Pinning: users 2 and 3 post memos; the admin and both users pin and     *)
(* unpin memos, their own, foreign ones and missing ones.                  *)

MaxPriority == 3     \* highest priority reached in one behaviour

PrioOwners == {2, 3}

PrioCallers == {1, 2, 3}

\* SetPriorityQuery
SetPriorityQuery(id, set) == [id |-> id, set |-> set]

PrioSave ==
    \E u \in PrioOwners :
        /\ Save(AuthUser(u), Payload(<<"x">>, <<>>, None, None), TRUE)
        /\ lastInput' = <<>>

PrioSet ==
    \E u \in PrioCallers, id \in 1..MaxMemoId, set \in BOOLEAN :
        /\ \A i \in DOMAIN memos : memos[i].priority < MaxPriority
        /\ set_priority(AuthUser(u), id, set)
        /\ lastInput' = SetPriorityQuery(id, set)

PrioRemove ==
    \E id \in DOMAIN memos :
        /\ Remove(AuthUser(memos[id].user_id), id)
        /\ lastInput' = <<>>

InitPrio == EmptyStore(AllOff)

NextPrio == PrioSave \/ PrioSet \/ PrioRemove

SpecPrio == InitPrio /\ [][NextPrio]_vars

-----------------------------------------------------------------------------
(* Moderation: under every combination of the comment switches user 2      *)
(* posts memos, open to comments or closed; user 2, user 3 and anonymous   *)
(* visitors comment on memos, existing and missing; the admin and both     *)
(* users remove comments; comments are approved one by one and memo by     *)
(* memo; user 2 deletes memos.                                             *)

ModAuthors == {None, Some(AuthUser(2)), Some(AuthUser(3))}

ModCallers == {1, 2, 3}

ModSave ==
    \E enable_comment \in {None, Some(TRUE)} :
        /\ Save(AuthUser(2), Payload(<<"x">>, <<>>, None, enable_comment),
                TRUE)
        /\ lastInput' = <<>>

ModAdd ==
    \E auth \in ModAuthors, m \in 1..MaxMemoId :
        /\ comment_add(auth, SaveCommentRequest(<<"x">>, m, <<"n">>))
        /\ lastInput' = [auth |-> auth]

ModRemove ==
    \E u \in ModCallers, id \in 1..MaxComments :
        /\ comment_remove(AuthUser(u), id)
        /\ lastInput' = <<>>

ModSingleApprove ==
    \E id \in 1..MaxComments :
        /\ single_approve(id)
        /\ lastInput' = <<>>

ModMemoApprove ==
    \E id \in 1..MaxMemoId :
        /\ memo_approve(id)
        /\ lastInput' = <<>>

ModDelete ==
    \E id \in DOMAIN memos :
        /\ Remove(AuthUser(memos[id].user_id), id)
        /\ lastInput' = <<>>

InitMod ==
    \E open_comment \in BOOLEAN, anonymous_comment \in BOOLEAN,
       comment_approved \in BOOLEAN :
        EmptyStore(Settings(FALSE, open_comment, anonymous_comment,
                            comment_approved))

NextMod ==
    \/ ModSave
    \/ ModAdd
    \/ ModRemove
    \/ ModSingleApprove
    \/ ModMemoApprove
    \/ ModDelete

SpecMod == InitMod /\ [][NextMod]_vars

\* C24: add-comment answers a business failure, inserts no comment and
\* changes no comment_count when the memo is missing, when OPEN_COMMENT is
\* off, when the memo's enable_comment is not 1, or when the caller is
\* anonymous and ANONYMOUS_COMMENT is off
C24_RefusedCommentWritesNothing ==
    [][resp'.op = "comment_add" =>
          LET m == resp'.id
          IN (\/ m \notin DOMAIN memos
              \/ ~sys_config["OPEN_COMMENT"]
              \/ memos[m].enable_comment # 1
              \/ lastInput'.auth = None /\ ~sys_config["ANONYMOUS_COMMENT"])
             => /\ resp'.code = CodeFail
                /\ comments' = comments
                /\ memos' = memos]_vars

\* an anonymous comment on an open memo has been refused for the switch
\* ANONYMOUS_COMMENT alone, while the memo carries a comment already
C24_Witness ==
    /\ resp.op = "comment_add"
    /\ resp.code = CodeFail
    /\ lastInput = [auth |-> None]
    /\ resp.id \in DOMAIN memos
    /\ memos[resp.id].enable_comment = 1
    /\ sys_config["OPEN_COMMENT"]
    /\ ~sys_config["ANONYMOUS_COMMENT"]
    /\ memos[resp.id].comment_count = 1

\* the comment rows of memo m that the step has inserted
InsertedComments(m) ==
    {c \in comments' : c.memo_id = m /\ \A d \in comments : d.id # c.id}

\* C25: every step raises comment_count of every memo by the number of
\* comment rows inserted for it, which is one for a successful add-comment
\* and none for every other request, remove-comment included; so the count
\* of an existing memo is the number of comments ever added to it and is
\* never below the number of its comment rows
C25_CountIsCommentsEverAdded ==
    [][/\ \A m \in DOMAIN memos \cap DOMAIN memos' :
             /\ memos'[m].comment_count =
                   memos[m].comment_count + Cardinality(InsertedComments(m))
             /\ Cardinality(InsertedComments(m)) =
                   IF /\ resp'.op = "comment_add"
                      /\ resp'.code = CodeOk
                      /\ resp'.id = m
                   THEN 1 ELSE 0
       /\ \A m \in DOMAIN memos' :
             memos'[m].comment_count >=
                 Cardinality({c \in comments' : c.memo_id = m})]_vars

\* a comment has been removed from a memo that had two: the memo counts
\* two and keeps one row
C25_Witness ==
    /\ resp.op = "comment_remove"
    /\ resp.code = CodeOk
    /\ \E m \in DOMAIN memos :
          /\ memos[m].comment_count = 2
          /\ Cardinality({c \in comments : c.memo_id = m}) = 1

\* C26: remove-comment deletes the row only for the owner of the memo the
\* comment is on or for an admin; every other caller, the author of the
\* comment included, gets a failure and the row stays
C26_OnlyMemoOwnerOrAdminRemoves ==
    [][resp'.op = "comment_remove" =>
          LET u == resp'.user_id
              row == {c \in comments : c.id = resp'.id}
          IN IF \E c \in row :
                    /\ c.memo_id \in DOMAIN memos
                    /\ \/ UserRole(u) = "ADMIN"
                       \/ memos[c.memo_id].user_id = u
             THEN resp'.code = CodeOk /\ comments' = comments \ row
             ELSE resp'.code = CodeFail /\ comments' = comments]_vars

\* user 3, the author of a stored comment on a memo of user 2, has been
\* refused its removal
C26_Witness ==
    /\ resp.op = "comment_remove"
    /\ resp.code = CodeFail
    /\ resp.user_id = 3
    /\ \E c \in comments :
          /\ c.id = resp.id
          /\ c.user_id = 3
          /\ c.memo_id \in DOMAIN memos
          /\ memos[c.memo_id].user_id = 2

\* the rows an approval with the given id is aimed at
ApprovalTarget(c) ==
    \/ resp'.op = "single_approve" /\ c.id = resp'.id
    \/ resp'.op = "memo_approve" /\ c.memo_id = resp'.id

\* C27: the two approvals set approved to 1 on the rows with a negative
\* user id that match the id and leave every other row, so every row with
\* a positive user id, as it was; no step of any request takes approved
\* from 1 back to another value
C27_ApprovalOnlyAnonymousRows ==
    [][/\ resp'.op \in {"single_approve", "memo_approve"} =>
             comments' = {IF c.user_id < 0 /\ ApprovalTarget(c)
                          THEN [c EXCEPT !.approved = Some(1)] ELSE c
                          : c \in comments}
       /\ \A c \in comments, d \in comments' :
             (c.id = d.id /\ c.approved = Some(1)) =>
                 d.approved = Some(1)]_vars

\* an approval by memo id has approved the anonymous comment of a memo and
\* left the comment of a user on the same memo without approval
C27_Witness ==
    /\ resp.op = "memo_approve"
    /\ sys_config["COMMENT_APPROVED"]
    /\ \E c \in comments, d \in comments :
          /\ c.memo_id = resp.id
          /\ d.memo_id = resp.id
          /\ c.user_id < 0
          /\ c.approved = Some(1)
          /\ d.user_id > 0
          /\ d.approved = None

-----------------------------------------------------------------------------
(* Order of the listing.                                                   *)

\* the order of the page query for request req: item a may stand before
\* item b
ListedBefore(req, a, b) ==
    IF /\ ~unwrap_or(req.liked, FALSE)
       /\ ~unwrap_or(req.commented, FALSE)
       /\ ~unwrap_or(req.mentioned, FALSE)
       /\ a.priority # b.priority
    THEN a.priority > b.priority
    ELSE a.created >= b.created

\* C28: the items of a listing stand by descending priority, then
\* descending creation time, when none of liked, commented and mentioned is
\* set, and by descending creation time alone otherwise; the order is that
\* of the returned sequence of items itself
C28_ItemsOrdered ==
    resp.op = "list" =>
        \A i, j \in DOMAIN resp.items :
            i < j => ListedBefore(resp.req, resp.items[i], resp.items[j])

-----------------------------------------------------------------------------
(* Attachment of resources, under SpecRes.                                 *)

\* C29: a successful create or update of memo m attaches only rows that
\* were orphaned and whose public id the request names; a row attached to
\* another memo stays there, no other memo gains or loses a row, and every
\* row keeps a single memo_id
C29_AttachOnlyOrphans ==
    [][(resp'.op \in {"save", "update"} /\ resp'.code = CodeOk) =>
          LET m == resp'.id
          IN /\ DOMAIN resources' = DOMAIN resources
             /\ \A pid \in DOMAIN resources :
                   /\ (resources[pid] \notin {0, m} \/
                       resources'[pid] \notin {0, m})
                          => resources'[pid] = resources[pid]
                   /\ (resources'[pid] = m /\ resources[pid] # m)
                          => /\ resources[pid] = 0
                             /\ pid \in Range(lastInput')]_vars

\* the second memo has been created with the public ids of both files
\* while the first file was attached to the first memo: it got the second
\* file only
C29_Witness ==
    /\ resp.op = "save"
    /\ resp.code = CodeOk
    /\ resp.id = 2
    /\ lastInput = <<"r1", "r2">>
    /\ DOMAIN memos = {1, 2}
    /\ resources["r1"] = 1
    /\ resources["r2"] = 2

\* C30: after a successful update of memo m with the list L the rows
\* attached to m are exactly the rows named in L that were attached to m
\* or orphaned before, and the rows that were attached to m and are not
\* named in L still exist, orphaned
C30_UpdateReplacesResources ==
    [][(resp'.op = "update" /\ resp'.code = CodeOk) =>
          LET m == resp'.id
              L == Range(lastInput')
          IN /\ DOMAIN resources' = DOMAIN resources
             /\ \A pid \in DOMAIN resources :
                   /\ resources'[pid] = m <=>
                         (pid \in L /\ resources[pid] \in {0, m})
                   /\ (resources[pid] = m /\ pid \notin L)
                          => resources'[pid] = 0]_vars

\* the first memo has been updated with the public ids of both files while
\* the second file was attached to the second memo: it holds the first
\* file only
C30_Witness ==
    /\ resp.op = "update"
    /\ resp.code = CodeOk
    /\ resp.id = 1
    /\ lastInput = <<"r1", "r2">>
    /\ DOMAIN memos = {1, 2}
    /\ resources["r1"] = 1
    /\ resources["r2"] = 2

-----------------------------------------------------------------------------
(* Mentions: user 2 posts memos open to comments; user 3 and anonymous     *)
(* visitors comment with contents that name users after an "@", followed   *)
(* by a blank, by a line end or by the two characters backslash and s.     *)

MentionContents ==
    { <<"@", "c", " ">>,
      <<"@", "c", "\\", "s">>,
      <<"@", "b", " ", "@", "c", "\n">>,
      <<"x">> }

MentionSave ==
    /\ Save(AuthUser(2), Payload(<<"x">>, <<>>, None, Some(TRUE)), TRUE)
    /\ lastInput' = <<>>

MentionAdd ==
    \E auth \in {None, Some(AuthUser(3))}, m \in DOMAIN memos,
       c \in MentionContents :
        /\ comment_add(auth, SaveCommentRequest(c, m, <<"n">>))
        /\ lastInput' = c

InitMention == EmptyStore(Settings(FALSE, TRUE, TRUE, FALSE))

NextMention == MentionSave \/ MentionAdd

SpecMention == InitMention /\ [][NextMention]_vars

\* content holds "@", the display name of user u and a whitespace
Mentions(content, u) ==
    \E w \in {" ", "\n"} :
        contains(content, <<"@">> \o display_name(u) \o <<w>>)

\* C31: a stored comment whose content holds "@name" followed by a
\* whitespace, name being the display name of user N, carries that name in
\* its mentioned names and "#N," in its mentioned ids; a comment without a
\* matching mention carries the empty string as its mentioned ids
C31_MentionStored ==
    \A c \in comments :
        /\ c.mentioned_user_id # None
        /\ \A u \in Users :
              Mentions(c.content, u) =>
                  /\ c.mentioned # None
                  /\ contains(c.mentioned[1], display_name(u))
                  /\ contains(c.mentioned_user_id[1],
                              <<"#">> \o to_string(u) \o <<",">>)
        /\ (\A u \in Users : ~Mentions(c.content, u)) =>
              c.mentioned_user_id = Some(<<>>)

-----------------------------------------------------------------------------
(* Deletion by an admin, under SpecRes.                                    *)

\* C32: when an admin deletes the memo of another user, the tag rows that
\* count one less are those of the owner of the memo, and no tag row of
\* the admin changes
C32_AdminRemoveDecrementsOwnerTags ==
    [][\A m \in DOMAIN memos :
          (/\ resp'.op = "remove"
           /\ resp'.id = m
           /\ resp'.code = CodeOk
           /\ UserRole(resp'.user_id) = "ADMIN"
           /\ memos[m].user_id # resp'.user_id)
          => /\ OwnerTagsDecremented(m)
             /\ \A r \in tags : r.user_id = resp'.user_id => r \in tags']_vars

-----------------------------------------------------------------------------
(* Foreign updates: one file has been uploaded; user 2 posts memos; users  *)
(* 2 and 3 update them.                                                    *)

ForeignUsers == {2, 3}

ForeignContents == { <<"#", "a">>, <<"x">> }

ForeignLists == {<<>>, <<"r1">>}

ForeignVisibilities == {None, Some("PRIVATE")}

ForeignSave ==
    \E c \in ForeignContents, ids \in ForeignLists :
        /\ Save(AuthUser(2), Payload(c, ids, None, None), TRUE)
        /\ lastInput' = <<>>

ForeignUpdate ==
    \E u \in ForeignUsers, id \in 1..MaxMemoId, c \in ForeignContents,
       ids \in ForeignLists, v \in ForeignVisibilities :
        /\ Update(AuthUser(u), Some(id), Payload(c, ids, v, None), TRUE)
        /\ lastInput' = <<>>

InitForeign == Uploaded(AllOff, {"r1"})

NextForeign == ForeignSave \/ ForeignUpdate

SpecForeign == InitForeign /\ [][NextForeign]_vars

\* C33: an update request for a memo by a user who is not its owner leaves
\* the memo rows, the tag rows and the resource rows as they were; only
\* the owner's update changes content, tag field, visibility, resources
\* and tag counts
C33_OnlyOwnerUpdates ==
    [][(/\ resp'.op = "update"
        /\ resp'.id \in DOMAIN memos
        /\ memos[resp'.id].user_id # resp'.user_id)
       => /\ memos' = memos
          /\ tags' = tags
          /\ resources' = resources]_vars

-----------------------------------------------------------------------------
(* Reset of API tokens, under SpecAuth.                                    *)

\* C34: a reset changes no token row of a user other than the caller,
\* whatever id the request passes, and a successful reset leaves the
\* caller's own row with the newly generated token
C34_ResetOnlyOwnRow ==
    [][resp'.op = "reset" =>
          /\ \A r \in dev_tokens :
                r.user_id # resp'.user_id => r \in dev_tokens'
          /\ resp'.code = CodeOk =>
                \A r \in DefaultRows(dev_tokens, resp'.user_id) :
                    \E r2 \in dev_tokens' :
                        /\ r2.id = r.id
                        /\ r2.token =
                              generate_token(resp'.user_id, "API", now)]_vars

-----------------------------------------------------------------------------
(* Foreign renames: users 2 and 3 post memos that carry the hashtag #a or  *)
(* none; both rename tags by id, their own and each other's.               *)

RenameUsers == {2, 3}

RenameContents == { <<"#", "a">>, <<"x">> }

RenameSave ==
    \E u \in RenameUsers, c \in RenameContents :
        /\ TagIdsBounded(u, c)
        /\ Save(AuthUser(u), Payload(c, <<>>, None, None), UniqueTagIndex)
        /\ lastInput' = <<>>

RenameTag ==
    \E u \in RenameUsers, id \in 1..MaxTagId, n \in TagNewNames :
        /\ tag_save(AuthUser(u), Some(<<TagUpdateDto(id, n)>>))
        /\ lastInput' = TagUpdateDto(id, n)

RenameRemove ==
    \E id \in DOMAIN memos :
        /\ Remove(AuthUser(memos[id].user_id), id)
        /\ lastInput' = <<>>

InitRename == EmptyStore(AllOff)

NextRename == RenameSave \/ RenameTag \/ RenameRemove

SpecRename == InitRename /\ [][NextRename]_vars

\* C35: a rename changes no tag row and no memo tag field of a user other
\* than the caller, whether the request names a tag id of another user or
\* an old name that memos of another user carry
C35_RenameOnlyOwnRows ==
    [][resp'.op = "tag_save" =>
          /\ \A r \in tags : r.user_id # resp'.user_id => r \in tags'
          /\ \A i \in DOMAIN memos :
                memos[i].user_id # resp'.user_id =>
                    memos'[i].tags = memos[i].tags]_vars

-----------------------------------------------------------------------------
(* Approval requests: comments await approval (COMMENT_APPROVED is on);    *)
(* user 2 posts memos, anonymous visitors comment, and approval requests   *)
(* arrive without a credential, from the admin, from the owner and from    *)
(* user 3.  The two handlers take no principal: the credential of the      *)
(* request is recorded, and it is not an argument of the handlers.         *)

ApproveCallers == {None} \cup {Some(AuthUser(u)) : u \in {1, 2, 3}}

ApproveSave ==
    /\ Save(AuthUser(2), Payload(<<"x">>, <<>>, None, Some(TRUE)), TRUE)
    /\ lastInput' = <<>>

ApproveAdd ==
    \E m \in DOMAIN memos :
        /\ comment_add(None, SaveCommentRequest(<<"x">>, m, <<"n">>))
        /\ lastInput' = <<>>

ApproveSingle ==
    \E auth \in ApproveCallers, id \in 1..MaxComments :
        /\ single_approve(id)
        /\ lastInput' = [auth |-> auth]

ApproveMemo ==
    \E auth \in ApproveCallers, id \in 1..MaxMemoId :
        /\ memo_approve(id)
        /\ lastInput' = [auth |-> auth]

InitApprove == EmptyStore(Settings(FALSE, TRUE, TRUE, TRUE))

NextApprove == ApproveSave \/ ApproveAdd \/ ApproveSingle \/ ApproveMemo

SpecApprove == InitApprove /\ [][NextApprove]_vars

\* C36: an approval request changes a comment row only when it carries
\* the credential of the owner of the comment's memo or of an admin; a
\* request without a credential changes no comment row
C36_ApprovalNeedsOwnerOrAdmin ==
    [][resp'.op \in {"single_approve", "memo_approve"} =>
          \A c \in comments :
              c \notin comments' =>
                  /\ lastInput'.auth # None
                  /\ c.memo_id \in DOMAIN memos
                  /\ \/ lastInput'.auth[1].role = "ADMIN"
                     \/ memos[c.memo_id].user_id =
                           lastInput'.auth[1].user_id]_vars

-----------------------------------------------------------------------------
(* Likes on existing memos: likes are open; user 2 posts memos; users 2    *)
(* and 3 add and remove relations of both kinds on the memos that exist.   *)

LikeCountSave ==
    /\ Save(AuthUser(2), Payload(<<"x">>, <<>>, None, None), TRUE)
    /\ lastInput' = <<>>

LikeCountRelation ==
    \E u \in LikeUsers, m \in DOMAIN memos, t \in FavTypes,
       o \in {"ADD", "REMOVE"} :
        /\ o = "ADD" => nextRelId <= MaxRelId
        /\ Relation(AuthUser(u), m, t, o)
        /\ lastInput' = <<>>

InitLikeCount == EmptyStore(Settings(TRUE, FALSE, FALSE, FALSE))

NextLikeCount == LikeCountSave \/ LikeCountRelation

SpecLikeCount == InitLikeCount /\ [][NextLikeCount]_vars

\* C37: after any series of ADD and REMOVE requests on existing memos, by
\* any users and with any fav_type, the like_count of every memo is the
\* number of relation rows of that memo
C37_LikeCountIsRelationRows ==
    \A m \in DOMAIN memos :
        memos[m].like_count =
            Cardinality({r \in relations : r.memo_id = m})

\* a REMOVE that found no row has been answered for a memo that two other
\* relations, one of each kind, point at
C37_Witness ==
    /\ resp.op = "relation"
    /\ resp.operate_type = "REMOVE"
    /\ resp.code = CodeOk
    /\ resp.rows_before = 0
    /\ resp.id \in DOMAIN memos
    /\ memos[resp.id].like_count = 2
    /\ {r.fav_type : r \in {x \in relations : x.memo_id = resp.id}}
           = FavTypes

-----------------------------------------------------------------------------
(* Overlapping requests on one memo: routes/memo.rs.  remove and update    *)
(* read the memo row on the connection, outside the transaction, and then  *)
(* run their statements in one transaction.  The transactions write the    *)
(* same rows and so run one after the other; a transaction is one step.    *)

\* remove up to db.transaction: the memo row is read, the caller is
\* checked, the tag names of the row are split
remove_begin(auth, memo_id, slot) ==
    LET found == find_by_id(memos, memo_id) IN
    IF found = None
    THEN /\ resp' = Reply("remove", CodeOk, auth.user_id, memo_id)
         /\ UNCHANGED txns
    ELSE IF auth.role # "ADMIN" /\ found[1].user_id # auth.user_id
    THEN /\ resp' = Reply("remove", CodeFail, auth.user_id, memo_id)
         /\ UNCHANGED txns
    ELSE /\ txns' = txns \cup {[slot |-> slot, op |-> "remove",
                                user_id |-> auth.user_id,
                                memo_id |-> memo_id, exist |-> found[1],
                                p |-> <<>>]}
         /\ resp' = Reply("begin", CodeOk, auth.user_id, memo_id)

\* the transaction of remove, with the tag names read before it
remove_txn(t) ==
    /\ tags' = DecrementEach(tags, t.user_id, split_tags(t.exist.tags))
    /\ resources' = [pid \in {q \in DOMAIN resources :
                                 resources[q] # t.memo_id}
                     |-> resources[pid]]
    /\ memos' = [i \in DOMAIN memos \ {t.memo_id} |-> memos[i]]
    /\ comments' = {c \in comments : c.memo_id # t.memo_id}
    /\ txns' = txns \ {t}
    /\ resp' = Reply("remove", CodeOk, t.user_id, t.memo_id)
    /\ UNCHANGED nextTagId

\* update up to db.transaction: the memo row is read and the update is
\* prepared from the payload and the row
update_begin(auth, id, p, slot) ==
    IF ~check_content_and_resource(p.content, p.public_ids)
          \/ find_by_id(memos, id) = None
    THEN /\ resp' = Reply("update", CodeFail, auth.user_id, id)
         /\ UNCHANGED txns
    ELSE /\ txns' = txns \cup {[slot |-> slot, op |-> "update",
                                user_id |-> auth.user_id, memo_id |-> id,
                                exist |-> find_by_id(memos, id)[1],
                                p |-> p]}
         /\ resp' = Reply("begin", CodeOk, auth.user_id, id)

\* the transaction of update, with the row read before it.  Its first
\* statement updates the memo by primary key and fails when the row is
\* gone (RecordNotUpdated), which rolls the transaction back.
update_txn(t, unique) ==
    LET tgs == parse_tags(t.p.content)
        sync == sync_tags_on_update(tags, nextTagId, t.user_id, tgs,
                                    split_tags(t.exist.tags), unique)
    IN IF t.memo_id \notin DOMAIN memos \/ ~sync.ok
       THEN /\ txns' = txns \ {t}
            /\ resp' = Reply("update", CodeSystemException, t.user_id,
                             t.memo_id)
            /\ UNCHANGED <<memos, tags, nextTagId, resources, comments>>
       ELSE /\ TagCountsBounded(sync.tags)
            /\ memos' = [memos EXCEPT ![t.memo_id] =
                  [@ EXCEPT
                     !.tags = format_tags(tgs),
                     !.updated = now,
                     !.content = trim(replace_first_line(t.p.content, tgs)),
                     !.enable_comment =
                         IF t.p.enable_comment = None
                         THEN t.exist.enable_comment
                         ELSE IF t.p.enable_comment[1] THEN 1 ELSE 0,
                     !.visibility =
                         Visibility(t.p.visibility, t.exist.visibility)]]
            /\ tags' = sync.tags
            /\ nextTagId' = sync.nextTagId
            /\ resources' =
                  LET cleared == clear_memo_resources(resources, t.memo_id)
                  IN IF t.p.public_ids # <<>>
                     THEN attach_resources(cleared, t.memo_id, t.p.public_ids)
                     ELSE cleared
            /\ txns' = txns \ {t}
            /\ resp' = Reply("update", CodeOk, t.user_id, t.memo_id)
            /\ UNCHANGED comments

-----------------------------------------------------------------------------
(* SpecOverlap: user 2 posts memos with the hashtag #a or without one and  *)
(* sends deletes and updates for them that overlap.                        *)

OverlapContents == { <<"#", "a">>, <<"x">> }

overlapOther == <<nextMemoId, nextCommentId, relations, nextRelId,
                  sys_config, mentionSeen, reads, lastInput, dev_tokens,
                  nextTokenId, now, revoked, backend, tasks>>

OverlapSave ==
    \E c \in OverlapContents :
        /\ txns = {}
        /\ Save(AuthUser(2), Payload(c, <<>>, None, None), UniqueTagIndex)
        /\ UNCHANGED lastInput

OverlapRemoveBegin ==
    \E id \in DOMAIN memos, slot \in 1..MaxTxns :
        /\ \A t \in txns : t.slot # slot
        /\ remove_begin(AuthUser(2), id, slot)
        /\ UNCHANGED <<memos, tags, nextTagId, resources, comments>>
        /\ UNCHANGED overlapOther

OverlapUpdateBegin ==
    \E id \in DOMAIN memos, slot \in 1..MaxTxns, c \in OverlapContents :
        /\ \A t \in txns : t.slot # slot
        /\ update_begin(AuthUser(2), id, Payload(c, <<>>, None, None), slot)
        /\ UNCHANGED <<memos, tags, nextTagId, resources, comments>>
        /\ UNCHANGED overlapOther

OverlapRemoveTxn ==
    \E t \in txns :
        /\ t.op = "remove"
        /\ remove_txn(t)
        /\ UNCHANGED overlapOther

OverlapUpdateTxn ==
    \E t \in txns :
        /\ t.op = "update"
        /\ update_txn(t, UniqueTagIndex)
        /\ UNCHANGED overlapOther

InitOverlap == EmptyStore(AllOff)

NextOverlap ==
    \/ OverlapSave
    \/ OverlapRemoveBegin
    \/ OverlapUpdateBegin
    \/ OverlapRemoveTxn
    \/ OverlapUpdateTxn

SpecOverlap == InitOverlap /\ [][NextOverlap]_vars

\* C38: once two overlapping requests on one memo (delete with delete,
\* update with update, update with delete) have both finished, every tag
\* row counts the memos of its user that carry the tag: the tag names read
\* before the transactions are not applied twice
C38_OverlapKeepsTagCounts ==
    txns = {} =>
        \A r \in tags :
            r.memo_count = Cardinality(MemosWithTag(r.user_id, r.name))

-----------------------------------------------------------------------------
(* add-comment overlapping delete-memo: routes/comment.rs.  add reads the  *)
(* memo and the switches on the connection, then runs its two statements   *)
(* in one transaction.                                                     *)

\* The definition of t_comment is not part of the sources.  The entity
\* declares no relation, the specification says that no foreign-key
\* cascade is relied upon, and remove deletes the memo row before the
\* comment rows: the table is taken without a foreign key on memo_id.
CommentForeignKey == FALSE

\* add up to db.transaction for an anonymous visitor: the checks on the
\* memo and on the switches
comment_begin(p, slot) ==
    IF \/ find_by_id(memos, p.memo_id) = None
       \/ ~get_boolean("OPEN_COMMENT")
       \/ memos[p.memo_id].enable_comment # 1
       \/ ~get_boolean("ANONYMOUS_COMMENT")
    THEN /\ resp' = CommentReply(CodeFail, -1, p.memo_id, 0, FALSE)
         /\ UNCHANGED txns
    ELSE /\ txns' = txns \cup
               {[slot |-> slot, op |-> "comment", p |-> p,
                 approved |-> IF get_boolean("COMMENT_APPROVED")
                              THEN Some(0) ELSE Some(1),
                 mentions |-> parse_mentions(p.content)]}
         /\ resp' = Reply("begin", CodeOk, -1, p.memo_id)

\* the transaction of add: the counter statement changes the memo row if
\* there is one, the insert stores the comment row
comment_txn(t) ==
    IF CommentForeignKey /\ t.p.memo_id \notin DOMAIN memos
    THEN /\ txns' = txns \ {t}
         /\ resp' = CommentReply(CodeSystemException, -1, t.p.memo_id, 0,
                                 FALSE)
         /\ UNCHANGED <<memos, comments, nextCommentId>>
    ELSE /\ memos' = IF t.p.memo_id \in DOMAIN memos
                     THEN increment_comment_count(memos, t.p.memo_id)
                     ELSE memos
         /\ comments' = comments \cup
               {[id |-> nextCommentId,
                 memo_id |-> t.p.memo_id,
                 content |-> t.p.content,
                 user_id |-> -1,
                 user_name |-> t.p.username,
                 mentioned |-> t.mentions.mentioned,
                 mentioned_user_id |-> t.mentions.mentioned_user_id,
                 created |-> nextCommentId,
                 approved |-> t.approved]}
         /\ nextCommentId' = nextCommentId + 1
         /\ txns' = txns \ {t}
         /\ resp' = CommentReply(CodeOk, -1, t.p.memo_id, nextCommentId,
                                 t.approved = Some(0))

-----------------------------------------------------------------------------
(* SpecOrphan: user 2 posts memos open to comments and deletes them while  *)
(* anonymous visitors comment on them.                                     *)

orphanOther == <<nextMemoId, tags, nextTagId, resources, relations,
                 nextRelId, sys_config, mentionSeen, reads, lastInput,
                 dev_tokens, nextTokenId, now, revoked, backend, tasks>>

OrphanSave ==
    /\ Save(AuthUser(2), Payload(<<"x">>, <<>>, None, Some(TRUE)), TRUE)
    /\ UNCHANGED lastInput

OrphanBegin ==
    \E m \in 1..MaxMemoId, slot \in 1..MaxTxns :
        /\ \A t \in txns : t.slot # slot
        /\ nextCommentId + Cardinality(txns) <= MaxComments
        /\ comment_begin(SaveCommentRequest(<<"x">>, m, <<"n">>), slot)
        /\ UNCHANGED <<memos, comments, nextCommentId>>
        /\ UNCHANGED orphanOther

OrphanTxn ==
    \E t \in txns :
        /\ t.op = "comment"
        /\ comment_txn(t)
        /\ UNCHANGED orphanOther

OrphanRemove ==
    \E id \in DOMAIN memos :
        /\ Remove(AuthUser(memos[id].user_id), id)
        /\ UNCHANGED lastInput

InitOrphan == EmptyStore(Settings(FALSE, TRUE, TRUE, FALSE))

NextOrphan == OrphanSave \/ OrphanBegin \/ OrphanTxn \/ OrphanRemove

SpecOrphan == InitOrphan /\ [][NextOrphan]_vars

\* C39: in every reachable state, under every interleaving of add-comment
\* with delete-memo, every comment row names a memo row that exists
C39_CommentsHaveMemo ==
    \A c \in comments : c.memo_id \in DOMAIN memos

-----------------------------------------------------------------------------
(* Overlapping pin requests: routes/memo.rs set_priority.  The handler     *)
(* reads the memo row on the connection and then runs one UPDATE           *)
(* statement; other requests run between the two.  The statement reads     *)
(* the highest priority and writes the row in one step: InnoDB locks the   *)
(* rows its subquery reads, SQLite has one writer.                         *)

\* set_priority up to its statement: the memo row is read and the caller
\* is checked
set_priority_begin(auth, id, set, slot) ==
    LET found == find_by_id(memos, id) IN
    IF found = None
    THEN /\ resp' = Reply("set_priority", CodeOk, auth.user_id, id)
         /\ UNCHANGED txns
    ELSE IF auth.role # "ADMIN" /\ found[1].user_id # auth.user_id
    THEN /\ resp' = Reply("set_priority", CodeFail, auth.user_id, id)
         /\ UNCHANGED txns
    ELSE /\ txns' = txns \cup {[slot |-> slot, op |-> "set_priority",
                                user_id |-> auth.user_id,
                                memo_id |-> found[1].id, exist |-> found[1],
                                set |-> set]}
         /\ resp' = Reply("begin", CodeOk, auth.user_id, id)

\* the UPDATE of set_priority writes value into the row with the id read
\* before; when the row is gone by now it matches no row, which is no error
set_priority_write(t, value) ==
    /\ memos' = IF t.memo_id \in DOMAIN memos
                THEN [memos EXCEPT ![t.memo_id].priority = value]
                ELSE memos
    /\ txns' = txns \ {t}
    /\ resp' = Reply("set_priority", CodeOk, t.user_id, t.memo_id)

\* set_priority gone wrong: the new priority is counted from the priority
\* of the row read before the statement
set_priority_stmt_own(t) ==
    set_priority_write(t, IF t.set THEN t.exist.priority + 1 ELSE 0)

\* the statement of set_priority: the highest priority is read when the
\* statement runs
set_priority_stmt(t) ==
    set_priority_write(t, IF t.set /\ DOMAIN memos # {}
                          THEN pinned_priority(memos) ELSE 0)

-----------------------------------------------------------------------------
(* SpecPin: user 2 posts and deletes memos; user 2 and user 3 send pin and *)
(* unpin requests for them, up to MaxTxns of them between their read and   *)
(* their statement at the same time.                                       *)

PinCallers == {2, 3}

pinOther == <<nextMemoId, tags, nextTagId, resources, comments,
              nextCommentId, relations, nextRelId, sys_config, mentionSeen,
              reads, dev_tokens, nextTokenId, now, revoked, backend, tasks>>

PinSave ==
    /\ Save(AuthUser(2), Payload(<<"x">>, <<>>, None, None), TRUE)
    /\ lastInput' = <<>>

PinBegin ==
    \E u \in PinCallers, id \in 1..MaxMemoId, set \in BOOLEAN,
       slot \in 1..MaxTxns :
        /\ \A t \in txns : t.slot # slot
        /\ set_priority_begin(AuthUser(u), id, set, slot)
        /\ lastInput' = SetPriorityQuery(id, set)
        /\ UNCHANGED <<memos, pinOther>>

PinStmt ==
    \E t \in txns :
        /\ \A i \in DOMAIN memos : memos[i].priority < MaxPriority
        /\ set_priority_stmt(t)
        /\ lastInput' = SetPriorityQuery(t.memo_id, t.set)
        /\ UNCHANGED pinOther

PinRemove ==
    \E id \in DOMAIN memos :
        /\ Remove(AuthUser(2), id)
        /\ lastInput' = <<>>

InitPin == EmptyStore(AllOff)

NextPin == PinSave \/ PinBegin \/ PinStmt \/ PinRemove

SpecPin == InitPin /\ [][NextPin]_vars

\* C40: whatever the order and the overlap of the pin and unpin requests,
\* no two memos share a priority other than 0, and a step that gives a memo
\* a new priority other than 0 puts it above every other memo while the
\* other memos keep theirs: the memo pinned last is the only one with the
\* highest priority
C40_PinnedLastIsHighest ==
    [][/\ \A i, j \in DOMAIN memos' :
             i # j /\ memos'[i].priority # 0
                 => memos'[i].priority # memos'[j].priority
       /\ \A i \in DOMAIN memos \cap DOMAIN memos' :
             memos'[i].priority # memos[i].priority
                 => \/ memos'[i].priority = 0
                    \/ \A j \in DOMAIN memos' \ {i} :
                          /\ memos'[j].priority < memos'[i].priority
                          /\ memos'[j].priority = memos[j].priority]_vars

\* memo resp.id was pinned above a memo pinned before it, while a pin
\* request for that memo, which read it unpinned, has not run its statement
C40_Witness ==
    /\ resp.op = "set_priority"
    /\ resp.code = CodeOk
    /\ lastInput = SetPriorityQuery(resp.id, TRUE)
    /\ resp.id \in DOMAIN memos
    /\ memos[resp.id].priority = 2
    /\ \E t \in txns :
          /\ t.set
          /\ t.memo_id # resp.id
          /\ t.memo_id \in DOMAIN memos
          /\ t.exist.priority = 0
          /\ memos[t.memo_id].priority = 1

=============================================================================
